---- MODULE Spec2Model ----
(***************************************************************************)
(* Model of the real-time order-copy pipeline of sx-copy-market-maker:     *)
(* OrderMonitor (event ingestion), SXMarketMakingBot (handlers),           *)
(* OrderCopyEngine.copyOrder (as the suspension points the bot sees),      *)
(* RiskManager (ledger) and WebSocketClient (connection manager).          *)
(*                                                                         *)
(* The JavaScript run-to-completion rule is kept: one action is one        *)
(* synchronous stretch of a handler, from its start (or from the await it  *)
(* resumes at) to the next await on a network call or timer.               *)
(***************************************************************************)
EXTENDS Integers, Sequences, FiniteSets, TLC

\* ---------------------------------------------------------------- bounds
NumSources == 1        \* source order hashes of the monitored wallet
MaxDerived == 2        \* orders the exchange accepts from the bot
MaxCancels == 2        \* cancelOrders requests made
MaxBatchLen == 2       \* updates in one feed message
MaxTime == 2           \* distinct updateTime values
MaxTasks == 2          \* handleNewOrder/copyOrder calls in flight at once
maxRetries == 2        \* network.wsMaxRetries of the configuration under test
MaxCancelAll == 4      \* cancelAllOrders requests counted
MaxLimit == 3          \* largest minStake and maxStake of the engines under test
MaxGameTime == 3       \* latest market start, in seconds
NumMarkets == 2        \* market hashes that orders refer to
MaxLookups == 2        \* getMarkets calls in flight at once
MaxApiCalls == 5       \* getMarkets calls made
OddsOne == 60          \* the odds that stand for 100%: 10^20 in the source, scaled down
RungUnit == 4          \* the odds of one unit of step size: 10^15 in the source
MaxStepSize == 3       \* largest ladder step size
MaxAdjust == 2         \* largest oddsAdjustment.value, as steps or percent
apiMaxRetries == 2     \* api.retryPolicy.maxRetries of the configuration under test
MaxStakeLen == 3       \* longest stake string handed to adjustStakeByPercentage
SignificandBits == 4   \* bits of the significand of a Number: 53 in JavaScript, scaled down

\* ---------------------------------------------------------------- values
SourceHashes == {<<"s", i>> : i \in 1..NumSources}
DerivedHashes == {<<"d", k>> : k \in 1..MaxDerived}
NoHash == <<"", 0>>
NoOrder == [orderHash |-> NoHash, totalBetSize |-> 0, fillAmount |-> 0,
            pendingFillAmount |-> 0]
Stake == 2
selfWalletAddress == "own"
monitoredWallets == {"w1"}
Wallets == monitoredWallets \cup {selfWalletAddress}

VARIABLES
  \* RiskManager
  trackedOrders,         \* Map<orderHash, Order>: a function on the tracked hashes
  ordersByOriginal,      \* Map<original, copied>, in insertion order
  originalOrderHistory,  \* Set<original>
  \* configuration
  autoCancelOnSource,    \* copying.autoCancelOnSource
  \* OrderMonitor / bot: asynchronous calls in flight
  copyTasks,             \* handleNewOrder -> handleOrderDetected -> copyOrder
  emitted,               \* lifecycle events handed to the bot's listeners since
                         \* the latest feed message arrived, in order
  removedByTerminal,     \* own orders that their cancellation or fill event removed
                         \* from tracking
  sourceEnded,           \* source orders whose cancellation or fill event was handed
                         \* over while a copy of them was in flight or made
  \* the exchange (external collaborator)
  exchangeOrders,        \* k-th accepted order: [source, status, totalBetSize]
  cancelRequests         \* cancelOrders calls made, each naming one hash

VARIABLES
  \* WebSocketClient
  client,                \* this.client is not null
  connectionState,
  reconnectAttempts,
  subscribedChannels,    \* Set<string>, in insertion order
  notice,                \* the notification emit() is handing to the listeners
  resume,                \* what the emitting code does once emit() returns
  maxRetriesNotices,     \* maxRetriesReached notifications emitted (counted to 2)
  connectWaiter,         \* the caller awaiting connect(): "start", "reconnect"
  rc,                    \* handleReconnect's timer and the reconnect() call
  \* the Ably client held in this.client (external collaborator)
  transport,             \* its connection state
  installed,             \* setupConnectionHandlers has run on it
  closing,               \* a client closed by disconnect() with the handlers on
                         \* it has yet to report 'closed'
  attached,              \* channels on which a message handler is subscribed
  \* OrderMonitor and SXMarketMakingBot
  channelHandlers,       \* Map<channelName, handler>: its keys, in insertion order
  isRunning,
  shuttingDown,
  botPc,                 \* start(): "new", "starting", "running", "startFailed"
  sd,                    \* the stop() call made by shutdown()
  cancelAllRequests      \* cancelAllOrders requests made (counted to MaxCancelAll)

VARIABLES
  \* OrderCopyEngine
  copyEngine             \* config.enabled, this.metadata is set, and
                         \* config.stakeAdjustment: method, value, minStake, maxStake

VARIABLES
  \* OrderMonitor.applyFilters, one call
  filterCase,            \* what the call reads: this.filters, the market that
                         \* getMarket returns, the order and Date.now()
  filterResult           \* what it returns: [passed, reason]

VARIABLES
  \* OrderMonitor.getMarket
  marketCache,           \* Map<marketHash, Market>: its keys
  lookups,               \* handleNewOrder calls awaiting apiClient.getMarkets:
                         \* [marketHash, calls]
  apiCalls               \* getMarkets calls made so far

mktVars == <<marketCache, lookups, apiCalls>>

VARIABLES
  \* the odds utilities and OrderCopyEngine.adjustOdds
  oddsCase,              \* what a call reads: the maker odds, the ladder step size
                         \* and config.oddsAdjustment (method, value,
                         \* ensureLadderCompliance); for the percentage
                         \* utilities also the percentage and the stake string
  oddsTrace              \* the calls made on it so far: [op, result, error]

oddsVars == <<oddsCase, oddsTrace>>

VARIABLES
  \* OrderCopyEngine.copyOrder, one call at a time
  copyCall               \* the latest call: what its collaborators did (env) and
                         \* the CopyResult it returned, with the steps it took

VARIABLES
  \* RiskManager.getExposureStats
  exposureStats          \* what the latest call returned, until the ledger changes

VARIABLES
  \* APIClient.request, one call of postOrders
  apiCall                \* [pc, retryCount, fetches, result]: where the call is,
                         \* its retryCount, what each fetch ended with, and
                         \* what the caller got

cfgVars == <<copyEngine, filterCase, filterResult, mktVars, oddsVars, copyCall,
             exposureStats, apiCall>>

connVars == <<client, connectionState, reconnectAttempts, subscribedChannels,
              notice, resume, maxRetriesNotices, connectWaiter, rc, transport,
              installed, attached, channelHandlers, isRunning, shuttingDown,
              botPc, sd, closing, cancelAllRequests>>

pipeVars == <<trackedOrders, ordersByOriginal, originalOrderHistory,
              autoCancelOnSource, copyTasks, emitted, removedByTerminal,
              sourceEnded, exchangeOrders, cancelRequests>>

\* ------------------------------------------------------- Map helpers
RECURSIVE MapIndex(_, _, _)
MapIndex(m, key, i) ==
  IF i > Len(m) THEN 0
  ELSE IF m[i].original = key THEN i ELSE MapIndex(m, key, i + 1)

MapHas(m, key) == MapIndex(m, key, 1) # 0
MapGet(m, key) == IF MapHas(m, key) THEN m[MapIndex(m, key, 1)].copied ELSE NoHash

RemoveAt(s, i) == SubSeq(s, 1, i - 1) \o SubSeq(s, i + 1, Len(s))

\* first entry, in iteration order, whose value is the hash (0 if none)
RECURSIVE FirstCopied(_, _, _)
FirstCopied(m, hash, i) ==
  IF i > Len(m) THEN 0
  ELSE IF m[i].copied = hash THEN i ELSE FirstCopied(m, hash, i + 1)

\* ------------------------------------------------------- RiskManager
\* The ledger is the record L = [tracked, byOriginal, history].
\* recordOrderMapping setting the mapping whether or not there is one
recordOrderMapping_mut(L, order, originalOrderHash) ==
  [L EXCEPT !.history = @ \cup {originalOrderHash},
            !.byOriginal = IF MapHas(@, originalOrderHash)
                           THEN [@ EXCEPT ![MapIndex(@, originalOrderHash, 1)].copied =
                                            order.orderHash]
                           ELSE Append(@, [original |-> originalOrderHash,
                                           copied |-> order.orderHash])]

\* recordOrderMapping tracking the derived order as well
recordOrderMapping_tracking(L, order, originalOrderHash) ==
  [L EXCEPT !.history = @ \cup {originalOrderHash},
            !.byOriginal = IF MapHas(@, originalOrderHash) THEN @
                           ELSE Append(@, [original |-> originalOrderHash,
                                           copied |-> order.orderHash]),
            !.tracked = [h \in (DOMAIN @) \cup {order.orderHash} |->
                           IF h = order.orderHash THEN order ELSE @[h]]]

recordOrderMapping(L, order, originalOrderHash) ==
  [L EXCEPT !.history = @ \cup {originalOrderHash},
            !.byOriginal = IF MapHas(@, originalOrderHash) THEN @
                           ELSE Append(@, [original |-> originalOrderHash,
                                           copied |-> order.orderHash])]

recordOrder(L, order) ==
  [L EXCEPT !.tracked = [h \in (DOMAIN @) \cup {order.orderHash} |->
                           IF h = order.orderHash THEN order ELSE @[h]]]

removeOrder(L, orderHash) ==
  IF orderHash \notin DOMAIN L.tracked THEN L
  ELSE [L EXCEPT !.tracked = [h \in (DOMAIN @) \ {orderHash} |-> @[h]],
                 !.byOriginal = IF FirstCopied(@, orderHash, 1) = 0 THEN @
                                ELSE RemoveAt(@, FirstCopied(@, orderHash, 1))]

isOrderCopied(L, orderHash) == orderHash \in L.history

\* clear emptying the history as well
clear_mut(L) == [L EXCEPT !.tracked = <<>>, !.byOriginal = <<>>, !.history = {}]

\* RiskManager.clear
clear(L) == [L EXCEPT !.tracked = <<>>, !.byOriginal = <<>>]

findCopiedOrder(L, originalOrderHash) ==
  LET copiedHash == MapGet(L.byOriginal, originalOrderHash)
  IN IF copiedHash \in DOMAIN L.tracked THEN L.tracked[copiedHash] ELSE NoOrder

\* fromWei keeps four decimals of the token amount, truncating
WeiPerToken == 1000000
FromWeiScale == 10000

\* StakeUtils.USDC.format: fromWei(stakeWei, 6).toFixed(2), as the number of
\* hundredths of a token that the string shows
formatStake(stakeWei) ==
  LET amount == (stakeWei * FromWeiScale) \div WeiPerToken
  IN (amount + (FromWeiScale \div 200)) \div (FromWeiScale \div 100)

calculateOrderExposure(order) == order.totalBetSize - order.fillAmount

\* getTotalExposure before the formatting: the sum over trackedOrders.values()
RECURSIVE TotalExposure(_, _)
TotalExposure(tracked, hashes) ==
  IF hashes = {} THEN 0
  ELSE LET h == CHOOSE x \in hashes : TRUE
       IN calculateOrderExposure(tracked[h]) + TotalExposure(tracked, hashes \ {h})

getExposureStats(L) ==
  [totalOpenOrders |-> Cardinality(DOMAIN L.tracked),
   totalOpenExposure |-> formatStake(TotalExposure(L.tracked, DOMAIN L.tracked))]

NoStats == [totalOpenOrders |-> 0 - 1, totalOpenExposure |-> 0 - 1]

Ledger == [tracked |-> trackedOrders, byOriginal |-> ordersByOriginal,
           history |-> originalOrderHistory]

\* ------------------------------------------------------- OrderCopyEngine
\* Stakes are natural numbers (wei amounts); NoStake stands for a value that is
\* not there: a result field left undefined, or a stake whose computation threw.
NoStake == 0 - 1

Abs(n) == IF n >= 0 THEN n ELSE 0 - n

\* BigNumber.div, for a positive divisor
TruncDiv(a, b) == IF a >= 0 THEN a \div b ELSE 0 - ((0 - a) \div b)

\* A percentage is a JavaScript number; here it is a whole number of thousandths
\* of a percent, so that percentage * 100 has a fraction for Math.round to round.
PercentScale == 1000

\* Math.round(n / d) for d > 0: the nearest integer, a half going up
MathRound(n, d) == (2 * n + d) \div (2 * d)

\* Math.round(percentage * 100)
roundedBps(percentage) == MathRound(percentage * 100, PercentScale)

\* A stake is a decimal string in the source; as an argument of
\* adjustStakeByPercentage it is the sequence of its characters.
DecimalDigits == <<"0", "1", "2", "3", "4", "5", "6", "7", "8", "9">>

isDecimal(chars) ==
  /\ chars # <<>>
  /\ \A i \in DOMAIN chars : \E n \in DOMAIN DecimalDigits : DecimalDigits[n] = chars[i]

\* isValidBigNumberString: BigNumber.from takes an optional minus sign and
\* decimal digits (hexadecimal strings are not among the strings under test)
isValidBigNumberString(value) ==
  \/ isDecimal(value)
  \/ Len(value) >= 2 /\ value[1] = "-" /\ isDecimal(Tail(value))

RECURSIVE DecimalValue(_)
DecimalValue(chars) ==
  IF chars = <<>> THEN 0
  ELSE DecimalValue(SubSeq(chars, 1, Len(chars) - 1)) * 10
       + (CHOOSE n \in DOMAIN DecimalDigits : DecimalDigits[n] = chars[Len(chars)]) - 1

\* BigNumber.from on a valid string
BigNumberFrom(value) ==
  IF value[1] = "-" THEN 0 - DecimalValue(Tail(value)) ELSE DecimalValue(value)

\* the message of the error adjustStakeByPercentage throws, "" when it returns
adjustStakeByPercentageError(originalStake, percentage) ==
  IF ~isValidBigNumberString(originalStake) THEN "Invalid stake format"
  ELSE IF percentage < 0 \/ percentage > 1000 * PercentScale
  THEN "Percentage must be between 0 and 1000"
  ELSE ""

\* the fraction of percentage * 100 is dropped, not rounded
adjustStakeByPercentage_mut(originalStake, percentage) ==
  IF percentage < 0 \/ percentage > 1000 * PercentScale THEN NoStake
  ELSE TruncDiv(originalStake * ((percentage * 100) \div PercentScale), 10000)

\* utils/stake.ts adjustStakeByPercentage, on the number the stake stands for
adjustStakeByPercentage(originalStake, percentage) ==
  IF percentage < 0 \/ percentage > 1000 * PercentScale THEN NoStake
  ELSE LET pctBps == roundedBps(percentage)
       IN TruncDiv(originalStake * pctBps, 10000)

\* utils/stake.ts validateStakeLimits
validateStakeLimits(stake, minStake, maxStake) ==
  IF stake < minStake
  THEN [valid |-> FALSE, reason |-> "below minimum", clamped |-> minStake]
  ELSE IF stake > maxStake
  THEN [valid |-> FALSE, reason |-> "exceeds maximum", clamped |-> maxStake]
  ELSE [valid |-> TRUE, reason |-> "", clamped |-> NoStake]

\* The stake the configured method gives, before the limits are looked at
methodStake(E, originalStake) ==
  CASE E.method = "percentage" ->
         adjustStakeByPercentage(originalStake, E.value * PercentScale)
    [] E.method = "fixed" -> E.minStake
    [] OTHER -> originalStake

\* adjustStake without its limits
adjustStake_mut(E, originalStake) == methodStake(E, originalStake)

\* OrderCopyEngine.adjustStake
adjustStake(E, originalStake) ==
  LET adjustedStake == methodStake(E, originalStake)
  IN IF adjustedStake = NoStake THEN NoStake
     ELSE LET validation == validateStakeLimits(adjustedStake, E.minStake, E.maxStake)
          IN IF ~validation.valid /\ validation.clamped # NoStake
             THEN validation.clamped
             ELSE adjustedStake

\* OrderCopyEngine.copyOrder up to the signature: the error of the failed result
\* it returns, "" when it goes on to sign and submit the order
copyOrderError(E, originalOrder) ==
  IF ~E.enabled THEN "Order copying is disabled"
  ELSE IF ~E.metadata THEN "Engine not initialized"
  ELSE LET adjustedStake == adjustStake(E, originalOrder.totalBetSize)
       IN IF adjustedStake = NoStake THEN "Percentage must be between 0 and 1000"
          ELSE validateStakeLimits(adjustedStake, E.minStake, E.maxStake).reason

\* ------------------------------------------------------- odds utilities
\* Odds are BigNumbers in the source: integers of any size, with a division that
\* truncates toward zero.  A call that throws returns OddsThrown.
OddsThrown == 0 - 2
BasisPoints == 10000

isValidOdds(odds) == odds >= 0 /\ odds <= OddsOne

\* isOnOddsLadder: mod by a zero step throws, which the function catches
isOnOddsLadder(odds, stepSize) ==
  IF stepSize = 0 THEN FALSE
  ELSE odds - TruncDiv(odds, RungUnit * stepSize) * (RungUnit * stepSize) = 0

\* rounds to the rung strictly below
roundOddsToLadder_below(odds, stepSize) ==
  IF stepSize = 0 THEN OddsThrown
  ELSE TruncDiv(odds - 1, RungUnit * stepSize) * (RungUnit * stepSize)

\* rounds up to the next rung
roundOddsToLadder_up(odds, stepSize) ==
  IF stepSize = 0 THEN OddsThrown
  ELSE TruncDiv(odds + RungUnit * stepSize - 1, RungUnit * stepSize)
         * (RungUnit * stepSize)

\* the message of the error roundOddsToLadder throws, "" when it returns
roundOddsToLadderError(stepSize) == IF stepSize = 0 THEN "division-by-zero" ELSE ""

\* roundOddsToLadder: division by a zero step throws
roundOddsToLadder(odds, stepSize) ==
  IF stepSize = 0 THEN OddsThrown
  ELSE TruncDiv(odds, RungUnit * stepSize) * (RungUnit * stepSize)

\* the message of the error adjustOddsByPercentage throws, "" when it returns
adjustOddsByPercentageError(makerOdds, percentage, ensureLadder, stepSize) ==
  IF ~isValidOdds(makerOdds) THEN "Invalid maker odds"
  ELSE LET factorBps == BasisPoints + roundedBps(percentage)
           adjusted == TruncDiv(makerOdds * factorBps, BasisPoints)
       IN IF ensureLadder /\ stepSize = 0 THEN roundOddsToLadderError(stepSize)
          ELSE LET result == IF ensureLadder
                             THEN roundOddsToLadder(adjusted, stepSize)
                             ELSE adjusted
               IN IF isValidOdds(result) THEN ""
                  ELSE "Adjusted odds out of valid range"

\* adjustOddsByPercentage
adjustOddsByPercentage(makerOdds, percentage, ensureLadder, stepSize) ==
  IF ~isValidOdds(makerOdds) THEN OddsThrown
  ELSE LET factorBps == BasisPoints + roundedBps(percentage)
           adjusted == TruncDiv(makerOdds * factorBps, BasisPoints)
       IN IF ensureLadder /\ stepSize = 0 THEN OddsThrown
          ELSE LET result == IF ensureLadder
                             THEN roundOddsToLadder(adjusted, stepSize)
                             ELSE adjusted
               IN IF isValidOdds(result) THEN result ELSE OddsThrown

\* the odds handed in are not validated
adjustOddsBySteps_unchecked(makerOdds, steps, stepSize) ==
  LET adjusted == makerOdds + RungUnit * stepSize * steps
  IN IF adjusted < 0 \/ ~isValidOdds(adjusted) THEN OddsThrown ELSE adjusted

\* steps are added whatever their sign
adjustOddsBySteps_mut(makerOdds, steps, stepSize) ==
  IF ~isValidOdds(makerOdds) THEN OddsThrown
  ELSE LET adjusted == makerOdds + RungUnit * stepSize * Abs(steps)
       IN IF isValidOdds(adjusted) THEN adjusted ELSE OddsThrown

\* adjustOddsBySteps, for a whole number of steps
adjustOddsBySteps(makerOdds, steps, stepSize) ==
  IF ~isValidOdds(makerOdds) THEN OddsThrown
  ELSE LET adjustmentAmount == RungUnit * stepSize * Abs(steps)
           adjusted == IF steps >= 0 THEN makerOdds + adjustmentAmount
                       ELSE makerOdds - adjustmentAmount
       IN IF adjusted < 0 \/ ~isValidOdds(adjusted) THEN OddsThrown ELSE adjusted

\* the message of the error adjustOddsBySteps throws, "" when it returns
adjustOddsByStepsError(makerOdds, steps, stepSize) ==
  IF ~isValidOdds(makerOdds) THEN "Invalid maker odds"
  ELSE LET adjustmentAmount == RungUnit * stepSize * Abs(steps)
           adjusted == IF steps >= 0 THEN makerOdds + adjustmentAmount
                       ELSE makerOdds - adjustmentAmount
       IN IF adjusted < 0 THEN "Adjusted odds would be negative"
          ELSE IF ~isValidOdds(adjusted) THEN "Adjusted odds out of valid range"
          ELSE ""

\* the message of the error the method of adjustOdds throws
methodOddsError(O, originalOdds) ==
  CASE O.method = "percentage" ->
         adjustOddsByPercentageError(originalOdds, O.value * PercentScale,
                                     O.ensureLadder, O.stepSize)
    [] O.method = "fixed" -> adjustOddsByStepsError(originalOdds, O.value, O.stepSize)
    [] OTHER -> ""

\* OrderCopyEngine.adjustOdds: the switch on the method
methodOdds(O, originalOdds) ==
  CASE O.method = "percentage" ->
         adjustOddsByPercentage(originalOdds, O.value * PercentScale, O.ensureLadder,
                                O.stepSize)
    [] O.method = "fixed" -> adjustOddsBySteps(originalOdds, O.value, O.stepSize)
    [] OTHER -> originalOdds

\* the message of the error adjustOdds throws, "" when it returns
adjustOddsError(O, originalOdds) ==
  IF methodOddsError(O, originalOdds) # "" THEN methodOddsError(O, originalOdds)
  ELSE IF O.ensureLadder /\ ~isOnOddsLadder(methodOdds(O, originalOdds), O.stepSize)
  THEN roundOddsToLadderError(O.stepSize)
  ELSE ""

\* the odds of the method, with no second look at the ladder
adjustOdds_mut(O, originalOdds) == methodOdds(O, originalOdds)

\* OrderCopyEngine.adjustOdds
adjustOdds(O, originalOdds) ==
  LET adjustedOdds == methodOdds(O, originalOdds)
  IN IF adjustedOdds = OddsThrown THEN OddsThrown
     ELSE IF O.ensureLadder /\ ~isOnOddsLadder(adjustedOdds, O.stepSize)
     THEN roundOddsToLadder(adjustedOdds, O.stepSize)
     ELSE adjustedOdds

\* ------------------------------------------------------- OrderCopyEngine.copyOrder
\* What a call of copyOrder meets: config.copyDelay, whether signOrder resolves,
\* and what apiClient.postOrders does.
CopyEnvs == [copyDelay : {0, 1}, signOk : BOOLEAN, post : {"inserted", "zero", "throws"}]

\* A CopyResult, with the steps the call took: the delay, the call of signOrder,
\* the call of postOrders; thrown when the call rejects instead of returning.
CopyResult(success, error, slept, signed, posted) ==
  [success |-> success, error |-> error, slept |-> slept, signed |-> signed,
   posted |-> posted, thrown |-> FALSE]

\* copyOrder from signOrder on
signAndPost(env) ==
  IF ~env.signOk THEN CopyResult(FALSE, "signing failed", env.copyDelay > 0, TRUE, FALSE)
  ELSE IF env.post = "throws"
  THEN CopyResult(FALSE, "Failed to post orders", env.copyDelay > 0, TRUE, TRUE)
  ELSE IF env.post = "zero"
  THEN CopyResult(FALSE, "Order submission failed", env.copyDelay > 0, TRUE, TRUE)
  ELSE CopyResult(TRUE, "", env.copyDelay > 0, TRUE, TRUE)

\* no call of copyOrder has been made
NoCall == [env |-> [copyDelay |-> 0, signOk |-> TRUE, post |-> "inserted"],
           result |-> CopyResult(FALSE, "not called", FALSE, FALSE, FALSE)]

\* the order is signed and posted whatever the configuration
copyOrder_mut(E, O, originalOrder, env) == signAndPost(env)

\* OrderCopyEngine.copyOrder.  The catch block turns whatever is thrown inside
\* the try block into a failed result with the message of the error.
copyOrder(E, O, originalOrder, env) ==
  IF ~E.enabled THEN CopyResult(FALSE, "Order copying is disabled", FALSE, FALSE, FALSE)
  ELSE IF ~E.metadata
  THEN CopyResult(FALSE, "Engine not initialized", FALSE, FALSE, FALSE)
  ELSE IF adjustOdds(O, O.odds) = OddsThrown
  THEN CopyResult(FALSE, "odds adjustment failed", env.copyDelay > 0, FALSE, FALSE)
  ELSE IF copyOrderError(E, originalOrder) # ""
  THEN CopyResult(FALSE, copyOrderError(E, originalOrder), env.copyDelay > 0,
                  FALSE, FALSE)
  ELSE signAndPost(env)

\* ------------------------------------------------------- APIClient
\* How a fetch ends: it rejects (network error), it is aborted by the timeout, it
\* resolves with a non-success HTTP status, or it resolves with a success HTTP
\* status and a body that is not JSON, or one whose status field is "success"
\* or something else.
TransportFailures == {"network error", "timeout"}
ThrownInTry == TransportFailures \cup {"http error", "bad body"}
FetchOutcomes == ThrownInTry \cup {"failure body", "success body"}

NoApiCall == [pc |-> "idle", retryCount |-> 0, fetches |-> <<>>, result |-> "none"]

\* APIClient.request after `await fetch`, and postOrders after request: a
\* rejected or aborted fetch, a response that is not ok and a body that does
\* not parse are thrown inside the try block, whose catch retries while
\* retryCount < maxRetries; a body whose status is not "success" is thrown by
\* postOrders, outside it
request(call, outcome) ==
  IF outcome \in ThrownInTry
  THEN IF call.retryCount < apiMaxRetries
       THEN [call EXCEPT !.pc = "backoff", !.fetches = Append(@, outcome)]
       ELSE [call EXCEPT !.pc = "done", !.fetches = Append(@, outcome),
                         !.result = "thrown"]
  ELSE [call EXCEPT !.pc = "done", !.fetches = Append(@, outcome),
                    !.result = IF outcome = "success body" THEN "returned"
                               ELSE "thrown"]

\* ------------------------------------------------------- OrderMonitor filters
\* percentageOdds is in the units of OddsOne; minOdds and maxOdds are decimal
\* strings, here whole numbers of tenths; NoOdds is a limit that is not set.
NoOdds == 0 - 1
NoMarket == [found |-> FALSE, sportId |-> 0, type |-> 0, leagueId |-> 0, legs |-> 0,
             gameTime |-> 0]
NoResult == [passed |-> FALSE, reason |-> "not called"]
MsPerSecond == 1000

Includes(list, x) == \E i \in DOMAIN list : list[i] = x

Tenths == 10

\* the distance between the doubles next to n >= 0: the least power of two that
\* leaves n no more than SignificandBits bits
Ulp(n) == 2 ^ (CHOOSE e \in 0..30 :
                 /\ n < 2 ^ (SignificandBits + e)
                 /\ \A d \in 0..(e - 1) : n >= 2 ^ (SignificandBits + d))

\* Number(bigint): the double nearest to n, a tie going to the even significand
ToNumber(n) ==
  LET q == n \div Ulp(n)
      r == n % Ulp(n)
  IN IF 2 * r < Ulp(n) \/ (2 * r = Ulp(n) /\ q % 2 = 0) THEN q * Ulp(n)
     ELSE (q + 1) * Ulp(n)

\* OrderMonitor.filterByOdds: impliedOdds = Number(oddsBN) / Number(precision) is
\* compared with parseFloat of the limit; the comparison of the quotient with
\* the limit in tenths is made on the products
filterByOdds(filters, order) ==
  LET oddsNumber == ToNumber(order.percentageOdds)
      precision == ToNumber(OddsOne)
  IN IF filters.minOdds # NoOdds /\ oddsNumber * Tenths < filters.minOdds * precision
     THEN [passed |-> FALSE, reason |-> "Odds below minimum"]
     ELSE IF filters.maxOdds # NoOdds
             /\ oddsNumber * Tenths > filters.maxOdds * precision
     THEN [passed |-> FALSE, reason |-> "Odds above maximum"]
     ELSE [passed |-> TRUE, reason |-> ""]

\* OrderMonitor.applyFilters, once getMarket has returned market
applyFilters(filters, market, order, now) ==
  IF ~market.found THEN [passed |-> FALSE, reason |-> "Market not found"]
  ELSE IF Len(filters.sports) > 0 /\ ~Includes(filters.sports, market.sportId)
  THEN [passed |-> FALSE, reason |-> "Sport not in allowed list"]
  ELSE IF Len(filters.marketTypes) > 0 /\ ~Includes(filters.marketTypes, market.type)
  THEN [passed |-> FALSE, reason |-> "Market type not in allowed list"]
  ELSE IF Len(filters.leagues) > 0 /\ ~Includes(filters.leagues, market.leagueId)
  THEN [passed |-> FALSE, reason |-> "League not in allowed list"]
  ELSE IF filters.excludeParlay /\ market.legs > 0
  THEN [passed |-> FALSE, reason |-> "Parlay markets excluded"]
  ELSE IF filters.excludeLive /\ market.gameTime * MsPerSecond < now
  THEN [passed |-> FALSE, reason |-> "Live markets excluded"]
  ELSE IF filters.minOdds # NoOdds \/ filters.maxOdds # NoOdds
  THEN filterByOdds(filters, order)
  ELSE [passed |-> TRUE, reason |-> ""]

\* ------------------------------------------------------- OrderMonitor.getMarket
MarketHashes == 1..NumMarkets

\* what the exchange knows of a market hash
MarketOf(marketHash) ==
  [found |-> TRUE, sportId |-> marketHash, type |-> 1, leagueId |-> 1, legs |-> 0,
   gameTime |-> MaxGameTime]

\* what apiClient.getMarkets does: resolves with the market, resolves with an
\* empty list, or rejects
LookupOutcomes == {"found", "empty", "error"}

\* getMarket caches whatever the lookup ends with
cacheAfterLookup_mut(cache, marketHash, outcome) == cache \cup {marketHash}

\* getMarket after `await this.apiClient.getMarkets`: the cache it leaves
cacheAfterLookup(cache, marketHash, outcome) ==
  IF outcome = "found" THEN cache \cup {marketHash} ELSE cache

\* getMarket after `await this.apiClient.getMarkets`: the market it returns
marketAfterLookup(marketHash, outcome) ==
  IF outcome = "found" THEN MarketOf(marketHash) ELSE NoMarket

\* ------------------------------------------------------- feed updates
Statuses == {"ACTIVE", "INACTIVE", "FILLED"}

Update(hash, status, time, fill, pending) ==
  [orderHash |-> hash, status |-> status, updateTime |-> time,
   totalBetSize |-> Stake, fillAmount |-> fill, pendingFillAmount |-> pending]

\* const { status, ...order } = update  (the fields the program reads)
OrderOf(update) ==
  [orderHash |-> update.orderHash, totalBetSize |-> update.totalBetSize,
   fillAmount |-> update.fillAmount, pendingFillAmount |-> update.pendingFillAmount]

\* updates.sort((a, b) => Number(a.updateTime) - Number(b.updateTime)): stable
RECURSIVE InsertByTime(_, _)
InsertByTime(sorted, u) ==
  IF sorted = <<>> THEN <<u>>
  ELSE IF sorted[Len(sorted)].updateTime <= u.updateTime THEN Append(sorted, u)
  ELSE Append(InsertByTime(SubSeq(sorted, 1, Len(sorted) - 1), u), sorted[Len(sorted)])

RECURSIVE SortByUpdateTime(_)
SortByUpdateTime(updates) ==
  IF updates = <<>> THEN <<>>
  ELSE InsertByTime(SortByUpdateTime(SubSeq(updates, 1, Len(updates) - 1)),
                    updates[Len(updates)])

\* ------------------------------------------------------- handlers
\* A handler's synchronous stretch maps the pipeline state
\*   st = [tracked, byOriginal, history, tasks, emitted, terminal, ended, cancels]
\* to the state it leaves.  t tags an event with the updateTime of the update
\* that caused it (0 once a later feed message has arrived).
Event(ev, hash, t) == [event |-> ev, orderHash |-> hash, updateTime |-> t]

\* handleOrderDetected has called copyOrder for the source order, or a copy of
\* it has been recorded
CopyBegun(st, hash) ==
  \/ hash \in st.history
  \/ \E i \in DOMAIN st.tasks :
       st.tasks[i].order.orderHash = hash /\ st.tasks[i].pc \in {"copy", "posted"}

Emit(st, ev, hash, t) ==
  [st EXCEPT !.emitted = Append(@, Event(ev, hash, t)),
             !.terminal = IF /\ ev \in {"ownOrderCancelled", "ownOrderFilled"}
                             /\ hash \in DOMAIN st.tracked
                          THEN @ \cup {hash} ELSE @,
             !.ended = IF ev \in {"orderCancelled", "orderFilled"} /\ CopyBegun(st, hash)
                       THEN @ \cup {hash} ELSE @]

\* handleOrderCancelled without the test of copying.autoCancelOnSource
Bot_handleOrderCancelled_unconditional(st, orderHash) ==
  LET copiedOrder == findCopiedOrder(st, orderHash)
  IN IF copiedOrder = NoOrder THEN st
     ELSE [st EXCEPT !.cancels = Append(@, copiedOrder.orderHash)]

\* SXMarketMakingBot.handleOrderCancelled, up to the cancelOrders request
Bot_handleOrderCancelled(st, orderHash) ==
  IF ~autoCancelOnSource THEN st
  ELSE LET copiedOrder == findCopiedOrder(st, orderHash)
       IN IF copiedOrder = NoOrder THEN st
          ELSE [st EXCEPT !.cancels = Append(@, copiedOrder.orderHash)]

Bot_handleOrderFilled(st, orderHash) == Bot_handleOrderCancelled(st, orderHash)

Bot_handleOwnOrderDetected(st, order) == recordOrder(st, order)

Bot_handleOwnOrderFilled(st, orderHash) == removeOrder(st, orderHash)

Bot_handleOwnOrderCancelled(st, orderHash) == removeOrder(st, orderHash)

\* OrderMonitor.handleOrderCancelled
Monitor_handleOrderCancelled(st, order, wallet, t) ==
  IF wallet = selfWalletAddress
  THEN Bot_handleOwnOrderCancelled(
         Emit(st, "ownOrderCancelled", order.orderHash, t), order.orderHash)
  ELSE Bot_handleOrderCancelled(
         Emit(st, "orderCancelled", order.orderHash, t), order.orderHash)

\* OrderMonitor.handleOrderFilled
Monitor_handleOrderFilled(st, order, wallet, t) ==
  IF wallet = selfWalletAddress
  THEN Bot_handleOwnOrderFilled(
         Emit(st, "ownOrderFilled", order.orderHash, t), order.orderHash)
  ELSE Bot_handleOrderFilled(
         Emit(st, "orderFilled", order.orderHash, t), order.orderHash)

\* handleNewOrder looking at fillAmount before it looks at the wallet
Monitor_handleNewOrder_mut(st, order, wallet, t) ==
  IF order.pendingFillAmount # 0 THEN st
  ELSE IF order.fillAmount # 0 THEN st
  ELSE IF wallet = selfWalletAddress
  THEN Bot_handleOwnOrderDetected(
         Emit(st, "ownOrderDetected", order.orderHash, t), order)
  ELSE [st EXCEPT !.tasks = Append(@, [order |-> order, wallet |-> wallet,
                                       pc |-> "filter", result |-> NoHash,
                                       updateTime |-> t])]

\* OrderMonitor.handleNewOrder, up to `await this.applyFilters(order)`
Monitor_handleNewOrder(st, order, wallet, t) ==
  IF order.pendingFillAmount # 0 THEN st
  ELSE IF wallet = selfWalletAddress
  THEN Bot_handleOwnOrderDetected(
         Emit(st, "ownOrderDetected", order.orderHash, t), order)
  ELSE IF order.fillAmount # 0 THEN st
  ELSE [st EXCEPT !.tasks = Append(@, [order |-> order, wallet |-> wallet,
                                       pc |-> "filter", result |-> NoHash,
                                       updateTime |-> t])]

\* OrderMonitor.processOrderUpdate
processOrderUpdate(st, update, wallet) ==
  IF update.status = "INACTIVE"
  THEN Monitor_handleOrderCancelled(st, OrderOf(update), wallet, update.updateTime)
  ELSE IF update.status = "FILLED"
  THEN Monitor_handleOrderFilled(st, OrderOf(update), wallet, update.updateTime)
  ELSE IF update.status = "ACTIVE"
  THEN Monitor_handleNewOrder(st, OrderOf(update), wallet, update.updateTime)
  ELSE st

RECURSIVE ProcessInOrder(_, _, _)
ProcessInOrder(st, updates, wallet) ==
  IF updates = <<>> THEN st
  ELSE ProcessInOrder(processOrderUpdate(st, Head(updates), wallet),
                      Tail(updates), wallet)

\* OrderMonitor.handleOrderMessage: processOrderUpdate is called, not awaited,
\* for each update of the sorted batch
handleOrderMessage(st, updates, wallet) ==
  ProcessInOrder(st, SortByUpdateTime(updates), wallet)

PipeState == [tracked |-> trackedOrders, byOriginal |-> ordersByOriginal,
              history |-> originalOrderHistory, tasks |-> copyTasks,
              emitted |-> emitted, terminal |-> removedByTerminal,
              ended |-> sourceEnded,
              cancels |-> cancelRequests]

\* A new feed message starts a new stretch of the event record: the calls still
\* in flight belong to earlier messages.
NewMessage(st) ==
  [st EXCEPT !.emitted = <<>>,
             !.tasks = [i \in DOMAIN @ |-> [@[i] EXCEPT !.updateTime = 0]]]

SetPipeState(st) ==
  /\ trackedOrders' = st.tracked
  /\ ordersByOriginal' = st.byOriginal
  /\ originalOrderHistory' = st.history
  /\ copyTasks' = st.tasks
  /\ emitted' = st.emitted
  /\ removedByTerminal' = st.terminal
  /\ sourceEnded' = st.ended
  /\ cancelRequests' = st.cancels

\* ======================================================= connection manager
\* WS_CHANNELS.ACTIVE_ORDERS(token, wallet)
ChannelOf(wallet) == <<"active_orders_v2", wallet>>

Range(seq) == {seq[i] : i \in DOMAIN seq}

\* Set.add and Set.delete on an insertion-ordered Set
SetAdd(seq, x) == IF x \in Range(seq) THEN seq ELSE Append(seq, x)

RECURSIVE SetDelete(_, _)
SetDelete(seq, x) ==
  IF seq = <<>> THEN <<>>
  ELSE IF Head(seq) = x THEN Tail(seq)
  ELSE <<Head(seq)>> \o SetDelete(Tail(seq), x)

Idle == [pc |-> "idle", queue |-> <<>>]

\* The connection manager, the monitor's subscriptions and the bot's life cycle
\* as one record W, which the procedures below map to the state they leave.
ConnState ==
  [client |-> client, connectionState |-> connectionState,
   reconnectAttempts |-> reconnectAttempts,
   subscribedChannels |-> subscribedChannels, notice |-> notice,
   resume |-> resume, maxRetriesNotices |-> maxRetriesNotices,
   connectWaiter |-> connectWaiter, rc |-> rc, transport |-> transport,
   installed |-> installed, attached |-> attached,
   channelHandlers |-> channelHandlers, isRunning |-> isRunning,
   shuttingDown |-> shuttingDown, botPc |-> botPc, sd |-> sd,
   closing |-> closing, cancelAllRequests |-> cancelAllRequests]

SetConnState(W) ==
  /\ client' = W.client
  /\ connectionState' = W.connectionState
  /\ reconnectAttempts' = W.reconnectAttempts
  /\ subscribedChannels' = W.subscribedChannels
  /\ notice' = W.notice
  /\ resume' = W.resume
  /\ maxRetriesNotices' = W.maxRetriesNotices
  /\ connectWaiter' = W.connectWaiter
  /\ rc' = W.rc
  /\ transport' = W.transport
  /\ installed' = W.installed
  /\ attached' = W.attached
  /\ channelHandlers' = W.channelHandlers
  /\ isRunning' = W.isRunning
  /\ shuttingDown' = W.shuttingDown
  /\ botPc' = W.botPc
  /\ sd' = W.sd
  /\ closing' = W.closing
  /\ cancelAllRequests' = W.cancelAllRequests
  /\ UNCHANGED <<pipeVars, cfgVars>>

\* this.emit(ev): the listeners run in the Dispatch step that follows, then the
\* emitting code goes on at `then`.
WsEmit(W, ev, then) ==
  [W EXCEPT !.notice = ev, !.resume = then,
            !.maxRetriesNotices = IF ev = "maxRetriesReached" /\ @ < 2
                                  THEN @ + 1 ELSE @]

\* WebSocketClient.isConnected
isConnected(W) == W.connectionState = "connected" /\ W.client

\* handleReconnect comparing with > for >=
handleReconnect_mut(W) ==
  IF W.reconnectAttempts > maxRetries
  THEN WsEmit(W, "maxRetriesReached", "none")
  ELSE [W EXCEPT !.reconnectAttempts = @ + 1,
                 !.connectionState = "reconnecting",
                 !.rc = [pc |-> "timer", queue |-> <<>>]]

\* WebSocketClient.handleReconnect
handleReconnect(W) ==
  IF W.reconnectAttempts >= maxRetries
  THEN WsEmit(W, "maxRetriesReached", "none")
  ELSE [W EXCEPT !.reconnectAttempts = @ + 1,
                 !.connectionState = "reconnecting",
                 !.rc = [pc |-> "timer", queue |-> <<>>]]

\* the channel is registered whether or not there is a client
subscribe_mut(W, channelName, withHandler) ==
  [W EXCEPT !.attached = IF withHandler THEN @ \cup {channelName} ELSE @,
            !.subscribedChannels = SetAdd(@, channelName)]

\* WebSocketClient.subscribe; without a client it throws before it does anything
subscribe(W, channelName, withHandler) ==
  IF ~W.client THEN W
  ELSE [W EXCEPT !.attached = IF withHandler THEN @ \cup {channelName} ELSE @,
                 !.subscribedChannels = SetAdd(@, channelName)]

RECURSIVE SubscribeAll(_, _, _)
SubscribeAll(W, channels, withHandler) ==
  IF channels = <<>> THEN W
  ELSE SubscribeAll(subscribe(W, Head(channels), withHandler),
                    Tail(channels), withHandler)

\* WebSocketClient.resubscribeChannels: subscribe(channelName) without a handler
resubscribeChannels(W) ==
  IF ~W.client \/ W.subscribedChannels = <<>> THEN W
  ELSE SubscribeAll([W EXCEPT !.subscribedChannels = <<>>],
                    W.subscribedChannels, FALSE)

\* OrderMonitor.subscribeToWallet
subscribeToWallet(W, wallet) ==
  subscribe([W EXCEPT !.channelHandlers = SetAdd(@, ChannelOf(wallet))],
            ChannelOf(wallet), TRUE)

\* OrderMonitor.start, then the rest of SXMarketMakingBot.start
startMonitoring(W) ==
  LET W1 == subscribeToWallet(W, selfWalletAddress)
      W2 == subscribeToWallet(W1, "w1")
  IN [W2 EXCEPT !.isRunning = TRUE, !.botPc = "running"]

\* SXMarketMakingBot.stop after orderMonitor.stop() and wsClient.disconnect()
stopDone(W) == [W EXCEPT !.isRunning = FALSE, !.sd = [pc |-> "done", queue |-> <<>>]]

\* stop()'s catch: the error is logged and stop() returns
stopFailed(W) == [W EXCEPT !.sd = [pc |-> "done", queue |-> <<>>]]

\* WebSocketClient.connect, up to the wait for the connection
connect(W, caller) ==
  IF W.client
  THEN \* "WebSocket client already exists": returns at once
       IF caller = "start" THEN startMonitoring(W) ELSE [W EXCEPT !.rc = Idle]
  ELSE [W EXCEPT !.connectionState = "connecting", !.client = TRUE,
                 !.transport = "connecting", !.installed = FALSE,
                 !.attached = {}, !.connectWaiter = caller,
                 !.rc = IF caller = "reconnect"
                        THEN [pc |-> "connect", queue |-> <<>>] ELSE @]

\* the caller of disconnect() goes on after it has returned
afterDisconnect(W, thread) ==
  IF thread = "rc" THEN connect(W, "reconnect") ELSE stopDone(W)

\* disconnect() has thrown in its caller
disconnectThrows(W, thread) ==
  IF thread = "rc" THEN handleReconnect([W EXCEPT !.rc = Idle]) ELSE stopFailed(W)

SetThread(W, thread, frame) ==
  IF thread = "rc" THEN [W EXCEPT !.rc = frame] ELSE [W EXCEPT !.sd = frame]

\* WebSocketClient.disconnect, after its loop
closeAndEmit(W, thread) ==
  WsEmit(SetThread([W EXCEPT !.client = FALSE, !.transport = "none",
                             !.closing = @ \/ W.installed,
                             !.installed = FALSE, !.attached = {},
                             !.connectionState = "disconnected"],
                   thread, [pc |-> "closed", queue |-> <<>>]),
         "disconnected", thread)

\* The loop of disconnect() from its next channel on.  unsubscribe() returns at
\* once without a client, and this.client.close() then throws.
disconnectLoop(W, thread, rest) ==
  IF ~W.client THEN disconnectThrows(W, thread)
  ELSE IF rest = <<>> THEN closeAndEmit(W, thread)
  ELSE SetThread([W EXCEPT !.attached = @ \ {Head(rest)}], thread,
                 [pc |-> "detach", queue |-> rest])

\* WebSocketClient.disconnect
disconnect(W, thread) ==
  IF ~W.client THEN afterDisconnect(W, thread)
  ELSE disconnectLoop(W, thread, W.subscribedChannels)

\* OrderMonitor.stop from its next channel on, then wsClient.disconnect()
stopLoop(W, rest) ==
  IF ~W.client \/ rest = <<>>
  THEN disconnect([W EXCEPT !.channelHandlers = <<>>], "sd")
  ELSE [W EXCEPT !.attached = @ \ {Head(rest)},
                 !.sd = [pc |-> "unsub", queue |-> rest]]

\* SXMarketMakingBot.shutdown and stop, up to the first unsubscribe
shutdown(W) ==
  IF W.shuttingDown THEN W
  ELSE LET W1 == [W EXCEPT !.shuttingDown = TRUE]
       IN IF ~W1.isRunning THEN [W1 EXCEPT !.sd = [pc |-> "done", queue |-> <<>>]]
          ELSE stopLoop(W1, W1.channelHandlers)

\* ------------------------------------------------------- actions
Quiet == notice = "none"

\* main(): new SXMarketMakingBot().start() reaches wsClient.connect()
Start ==
  /\ Quiet
  /\ botPc = "new"
  /\ SetConnState(connect([ConnState EXCEPT !.botPc = "starting"], "start"))

\* connect(): the new client reports 'connected'
ConnectSucceeds ==
  /\ Quiet
  /\ connectWaiter # "none"
  /\ client /\ transport = "connecting"
  /\ SetConnState(WsEmit([ConnState EXCEPT !.transport = "connected",
                                           !.installed = TRUE,
                                           !.connectionState = "connected",
                                           !.reconnectAttempts = 0],
                         "connected", "connectReturn"))

\* connect(): the new client reports 'failed' or the 30 s timeout expires.
\* start() rethrows and main() shuts down and exits; reconnect() catches.
ConnectFails ==
  /\ Quiet
  /\ connectWaiter # "none"
  /\ client /\ transport = "connecting"
  /\ LET W == [ConnState EXCEPT !.transport = "failed",
                                !.connectionState = "failed",
                                !.connectWaiter = "none"]
     IN IF connectWaiter = "start"
        THEN SetConnState(shutdown([W EXCEPT !.botPc = "startFailed"]))
        ELSE SetConnState(handleReconnect([W EXCEPT !.rc = Idle]))

\* SXMarketMakingBot.cancelAllOpenOrders: one cancelAllOrders request
cancelAllOpenOrders(W) ==
  [W EXCEPT !.cancelAllRequests = IF @ < MaxCancelAll THEN @ + 1 ELSE @]

\* the 'disconnected' listener doing nothing
onNotice_mut(W, ev) == W

\* the bot's listeners of the client's notifications, as far as they act at
\* once: 'disconnected' calls cancelAllOpenOrders
onNotice(W, ev) == IF ev = "disconnected" THEN cancelAllOpenOrders(W) ELSE W

\* The listeners of the notification run, then the emitting code goes on.  The
\* bot's 'disconnected' listener requests cancelAllOrders, which finds no order
\* on the exchange in the runs of SpecConn; its 'error' listener only logs.
Dispatch ==
  /\ notice # "none"
  /\ LET W == onNotice([ConnState EXCEPT !.notice = "none", !.resume = "none"],
                       notice)
     IN CASE notice = "connected" /\ resume = "connectReturn" ->
               SetConnState(IF connectWaiter = "start"
                            THEN startMonitoring([W EXCEPT !.connectWaiter = "none"])
                            ELSE [W EXCEPT !.connectWaiter = "none", !.rc = Idle])
          [] notice = "connected" /\ resume = "resubscribe" ->
               SetConnState(resubscribeChannels([W EXCEPT !.reconnectAttempts = 0]))
          [] notice = "disconnected" /\ resume \in {"rc", "sd"} ->
               SetConnState(afterDisconnect(W, resume))
          [] notice = "disconnected" /\ resume = "none" ->
               SetConnState(W)
          [] notice = "error" ->
               SetConnState(handleReconnect(W))
          [] notice = "maxRetriesReached" ->
               SetConnState(shutdown(W))

\* connection.on('disconnected')
TransportDrop ==
  /\ Quiet
  /\ client /\ installed /\ transport = "connected"
  /\ SetConnState(WsEmit([ConnState EXCEPT !.transport = "disconnected",
                                           !.connectionState = "disconnected"],
                         "disconnected", "none"))

\* connection.on('suspended')
TransportSuspend ==
  /\ Quiet
  /\ client /\ installed /\ transport = "disconnected"
  /\ SetConnState(WsEmit([ConnState EXCEPT !.transport = "suspended",
                                           !.connectionState = "disconnected"],
                         "disconnected", "none"))

\* connection.on('closed'): the client that disconnect() closed reports it.
\* The handler belongs to the client object that was closed and sets the state
\* whatever the client of the moment is doing.
TransportClosed ==
  /\ Quiet
  /\ closing
  /\ SetConnState(WsEmit([ConnState EXCEPT !.closing = FALSE,
                                           !.connectionState = "disconnected"],
                         "disconnected", "none"))

\* connection.on('connected'): the transport has recovered by itself
TransportRecover ==
  /\ Quiet
  /\ client /\ installed /\ transport \in {"disconnected", "suspended"}
  /\ SetConnState(WsEmit([ConnState EXCEPT !.transport = "connected",
                                           !.connectionState = "connected"],
                         "connected", "resubscribe"))

\* connection.on('failed')
TransportFail ==
  /\ Quiet
  /\ client /\ installed /\ transport \in {"connected", "disconnected", "suspended"}
  /\ SetConnState(WsEmit([ConnState EXCEPT !.transport = "failed",
                                           !.connectionState = "failed"],
                         "error", "handleReconnect"))

\* handleReconnect's timer fires: reconnect() calls disconnect()
ReconnectTimer ==
  /\ Quiet
  /\ rc.pc = "timer"
  /\ SetConnState(disconnect([ConnState EXCEPT !.rc = [pc |-> "reconnect",
                                                        queue |-> <<>>]], "rc"))

\* disconnect(): channel.detach() of the channel being unsubscribed settles
DetachDone(thread, ok) ==
  /\ Quiet
  /\ LET frame == IF thread = "rc" THEN rc ELSE sd
     IN /\ frame.pc = "detach"
        /\ IF ok
           THEN SetConnState(disconnectLoop(
                  [ConnState EXCEPT !.subscribedChannels =
                                      SetDelete(@, Head(frame.queue))],
                  thread, Tail(frame.queue)))
           ELSE SetConnState(disconnectThrows(ConnState, thread))

\* OrderMonitor.stop(): channel.detach() of the channel being unsubscribed settles
UnsubscribeDone(ok) ==
  /\ Quiet
  /\ sd.pc = "unsub"
  /\ IF ok
     THEN SetConnState(stopLoop(
            [ConnState EXCEPT !.subscribedChannels = SetDelete(@, Head(sd.queue))],
            Tail(sd.queue)))
     ELSE SetConnState(stopFailed(ConnState))

\* SIGINT, SIGTERM, an uncaught exception or an unhandled rejection:
\* gracefulShutdown calls bot.shutdown
Signal ==
  /\ Quiet
  /\ botPc # "new"
  /\ ~shuttingDown
  /\ SetConnState(shutdown(ConnState))

ConnInit ==
  /\ client = FALSE
  /\ connectionState = "disconnected"
  /\ reconnectAttempts = 0
  /\ subscribedChannels = <<>>
  /\ notice = "none"
  /\ resume = "none"
  /\ maxRetriesNotices = 0
  /\ connectWaiter = "none"
  /\ rc = Idle
  /\ transport = "none"
  /\ installed = FALSE
  /\ attached = {}
  /\ channelHandlers = <<>>
  /\ isRunning = FALSE
  /\ shuttingDown = FALSE
  /\ botPc = "new"
  /\ sd = Idle
  /\ closing = FALSE
  /\ cancelAllRequests = 0

\* The state start() leaves: connected, both channels subscribed.
ConnStarted ==
  /\ client = TRUE
  /\ connectionState = "connected"
  /\ reconnectAttempts = 0
  /\ subscribedChannels = <<ChannelOf(selfWalletAddress), ChannelOf("w1")>>
  /\ notice = "none"
  /\ resume = "none"
  /\ maxRetriesNotices = 0
  /\ connectWaiter = "none"
  /\ rc = Idle
  /\ transport = "connected"
  /\ installed = TRUE
  /\ attached = {ChannelOf(selfWalletAddress), ChannelOf("w1")}
  /\ channelHandlers = <<ChannelOf(selfWalletAddress), ChannelOf("w1")>>
  /\ isRunning = TRUE
  /\ shuttingDown = FALSE
  /\ botPc = "running"
  /\ sd = Idle
  /\ closing = FALSE
  /\ cancelAllRequests = 0

ConnNext ==
  \/ Start
  \/ ConnectSucceeds
  \/ ConnectFails
  \/ Dispatch
  \/ TransportDrop
  \/ TransportSuspend
  \/ TransportRecover
  \/ TransportFail
  \/ TransportClosed
  \/ ReconnectTimer
  \/ \E thread \in {"rc", "sd"}, ok \in BOOLEAN : DetachDone(thread, ok)
  \/ \E ok \in BOOLEAN : UnsubscribeDone(ok)
  \/ Signal

\* ------------------------------------------------------- the feed
\* What a channel can deliver.  The monitored wallet's channel is at-least-once
\* and unordered across messages: any update of a source order.  The own
\* wallet's channel carries the orders the exchange holds for the bot: their
\* ACTIVE update (also replayed, rewind) and their current terminal update.
\* An ACTIVE update is an in-flight artifact (pendingFillAmount # 0), a partly
\* filled order or a fresh one; a terminal update's amounts are not read.
Shapes(status) ==
  IF status = "ACTIVE" THEN {<<0, 0>>, <<1, 0>>, <<0, 1>>} ELSE {<<0, 0>>}

UpdatesFor(hash, statuses) ==
  UNION {{Update(hash, s, t, fp[1], fp[2]) : t \in 1..MaxTime, fp \in Shapes(s)} :
           s \in statuses}

UpdatesOf(wallet) ==
  IF wallet = selfWalletAddress
  THEN UNION {UpdatesFor(<<"d", k>>, {"ACTIVE", exchangeOrders[k].status}) :
                k \in DOMAIN exchangeOrders}
  ELSE UNION {UpdatesFor(h, Statuses) : h \in SourceHashes}

\* Feed messages of n updates.  Only the order of the update times is read
\* (the sort comparator), so the least time of a message is taken to be 1.
MessagesOf(wallet, n) ==
  {m \in [1..n -> UpdatesOf(wallet)] : \E i \in 1..n : m[i].updateTime = 1}

\* ------------------------------------------------------- actions
\* A feed message reaches the channel handler installed by subscribeToWallet.
Deliver(wallet, updates) ==
  /\ transport = "connected"
  /\ ChannelOf(wallet) \in attached
  /\ LET st == handleOrderMessage(NewMessage(PipeState), updates, wallet)
     IN /\ Len(st.tasks) <= MaxTasks
        /\ Len(st.cancels) <= MaxCancels
        /\ SetPipeState(st)
  /\ UNCHANGED <<autoCancelOnSource, exchangeOrders, connVars, cfgVars>>

\* handleNewOrder resumes after applyFilters; a passing order is emitted as
\* orderDetected and handleOrderDetected runs up to the first await of copyOrder.
FilterDone(i, passed) ==
  /\ i \in DOMAIN copyTasks
  /\ copyTasks[i].pc = "filter"
  /\ LET task == copyTasks[i]
     IN IF ~passed
        THEN /\ copyTasks' = RemoveAt(copyTasks, i)
             /\ UNCHANGED emitted
        ELSE /\ emitted' = Append(emitted, Event("orderDetected", task.order.orderHash,
                                                  task.updateTime))
             /\ IF isOrderCopied(Ledger, task.order.orderHash)
                THEN copyTasks' = RemoveAt(copyTasks, i)
                ELSE copyTasks' = [copyTasks EXCEPT ![i].pc = "copy"]
  /\ UNCHANGED <<trackedOrders, ordersByOriginal, originalOrderHistory,
                 autoCancelOnSource, removedByTerminal, sourceEnded, exchangeOrders,
                 cancelRequests, connVars, cfgVars>>

\* a failed copy that marks its source as copied
CopyFail_marking(i) ==
  /\ i \in DOMAIN copyTasks
  /\ copyTasks[i].pc = "copy"
  /\ originalOrderHistory' = originalOrderHistory \cup {copyTasks[i].order.orderHash}
  /\ copyTasks' = RemoveAt(copyTasks, i)
  /\ UNCHANGED <<trackedOrders, ordersByOriginal,
                 autoCancelOnSource, emitted, removedByTerminal, sourceEnded, exchangeOrders,
                 cancelRequests, connVars, cfgVars>>

\* copyOrder fails before the exchange has the order: a validation error, a
\* signing error or a request that never arrives.  handleOrderDetected logs it.
CopyFail(i) ==
  /\ i \in DOMAIN copyTasks
  /\ copyTasks[i].pc = "copy"
  /\ copyTasks' = RemoveAt(copyTasks, i)
  /\ UNCHANGED <<trackedOrders, ordersByOriginal, originalOrderHistory,
                 autoCancelOnSource, emitted, removedByTerminal, sourceEnded, exchangeOrders,
                 cancelRequests, connVars, cfgVars>>

\* copyOrder returns a failed result that the configuration decides: copying
\* disabled, engine not initialized, or an adjusted stake outside the limits.
CopyRejected(i) ==
  /\ i \in DOMAIN copyTasks
  /\ copyTasks[i].pc = "copy"
  /\ copyOrderError(copyEngine, copyTasks[i].order) # ""
  /\ copyTasks' = RemoveAt(copyTasks, i)
  /\ UNCHANGED <<trackedOrders, ordersByOriginal, originalOrderHistory,
                 autoCancelOnSource, emitted, removedByTerminal, sourceEnded, exchangeOrders,
                 cancelRequests, connVars, cfgVars>>

\* postOrders with the stake of the source order
PostOrders_mut(i, inserted) ==
  /\ i \in DOMAIN copyTasks
  /\ copyTasks[i].pc = "copy"
  /\ copyOrderError(copyEngine, copyTasks[i].order) = ""
  /\ IF inserted
     THEN /\ Len(exchangeOrders) < MaxDerived
          /\ exchangeOrders' = Append(exchangeOrders,
                                 [source |-> copyTasks[i].order.orderHash,
                                  status |-> "ACTIVE",
                                  totalBetSize |->
                                    copyTasks[i].order.totalBetSize])
          /\ copyTasks' = [copyTasks EXCEPT ![i].pc = "posted",
                             ![i].result = <<"d", Len(exchangeOrders) + 1>>]
     ELSE /\ copyTasks' = [copyTasks EXCEPT ![i].pc = "posted"]
          /\ UNCHANGED exchangeOrders
  /\ UNCHANGED <<trackedOrders, ordersByOriginal, originalOrderHistory,
                 autoCancelOnSource, emitted, removedByTerminal, sourceEnded,
                 cancelRequests, connVars, cfgVars>>

\* copyOrder's postOrders request reaches the exchange, which inserts the
\* order under a new hash or refuses it (inserted = 0).
PostOrders(i, inserted) ==
  /\ i \in DOMAIN copyTasks
  /\ copyTasks[i].pc = "copy"
  /\ copyOrderError(copyEngine, copyTasks[i].order) = ""
  /\ IF inserted
     THEN /\ Len(exchangeOrders) < MaxDerived
          /\ exchangeOrders' = Append(exchangeOrders,
                                 [source |-> copyTasks[i].order.orderHash,
                                  status |-> "ACTIVE",
                                  totalBetSize |->
                                    adjustStake(copyEngine,
                                                copyTasks[i].order.totalBetSize)])
          /\ copyTasks' = [copyTasks EXCEPT ![i].pc = "posted",
                             ![i].result = <<"d", Len(exchangeOrders) + 1>>]
     ELSE /\ copyTasks' = [copyTasks EXCEPT ![i].pc = "posted"]
          /\ UNCHANGED exchangeOrders
  /\ UNCHANGED <<trackedOrders, ordersByOriginal, originalOrderHistory,
                 autoCancelOnSource, emitted, removedByTerminal, sourceEnded,
                 cancelRequests, connVars, cfgVars>>

\* handleOrderDetected recording whatever copyOrder returns
CopyReturn_mut(i) ==
  /\ i \in DOMAIN copyTasks
  /\ copyTasks[i].pc = "posted"
  /\ LET task == copyTasks[i]
         copiedOrder == [orderHash |-> task.result,
                         totalBetSize |-> adjustStake(copyEngine,
                                                      task.order.totalBetSize),
                         fillAmount |-> 0, pendingFillAmount |-> 0]
         L == recordOrderMapping(Ledger, copiedOrder, task.order.orderHash)
     IN /\ ordersByOriginal' = L.byOriginal
        /\ originalOrderHistory' = L.history
        /\ trackedOrders' = L.tracked
  /\ copyTasks' = RemoveAt(copyTasks, i)
  /\ UNCHANGED <<autoCancelOnSource, emitted, removedByTerminal, sourceEnded, exchangeOrders,
                 cancelRequests, connVars, cfgVars>>

\* copyOrder returns to handleOrderDetected, which records a successful copy.
CopyReturn(i) ==
  /\ i \in DOMAIN copyTasks
  /\ copyTasks[i].pc = "posted"
  /\ LET task == copyTasks[i]
         copiedOrder == [orderHash |-> task.result,
                         totalBetSize |-> adjustStake(copyEngine,
                                                      task.order.totalBetSize),
                         fillAmount |-> 0, pendingFillAmount |-> 0]
         L == IF task.result # NoHash
              THEN recordOrderMapping(Ledger, copiedOrder, task.order.orderHash)
              ELSE Ledger
     IN /\ ordersByOriginal' = L.byOriginal
        /\ originalOrderHistory' = L.history
        /\ trackedOrders' = L.tracked
  /\ copyTasks' = RemoveAt(copyTasks, i)
  /\ UNCHANGED <<autoCancelOnSource, emitted, removedByTerminal, sourceEnded, exchangeOrders,
                 cancelRequests, connVars, cfgVars>>

\* The exchange acts on a cancel request for an order that is still open.
ExchangeCancel(k) ==
  /\ k \in DOMAIN exchangeOrders
  /\ exchangeOrders[k].status = "ACTIVE"
  /\ \E j \in DOMAIN cancelRequests : cancelRequests[j] = <<"d", k>>
  /\ exchangeOrders' = [exchangeOrders EXCEPT ![k].status = "INACTIVE"]
  /\ UNCHANGED <<trackedOrders, ordersByOriginal, originalOrderHistory,
                 autoCancelOnSource, copyTasks, emitted, removedByTerminal, sourceEnded,
                 cancelRequests, connVars, cfgVars>>

\* A taker fills an open order of the bot.
ExchangeFill(k) ==
  /\ k \in DOMAIN exchangeOrders
  /\ exchangeOrders[k].status = "ACTIVE"
  /\ exchangeOrders' = [exchangeOrders EXCEPT ![k].status = "FILLED"]
  /\ UNCHANGED <<trackedOrders, ordersByOriginal, originalOrderHistory,
                 autoCancelOnSource, copyTasks, emitted, removedByTerminal, sourceEnded,
                 cancelRequests, connVars, cfgVars>>

PipeInit ==
  /\ trackedOrders = <<>>
  /\ ordersByOriginal = <<>>
  /\ originalOrderHistory = {}
  /\ autoCancelOnSource \in BOOLEAN
  /\ copyTasks = <<>>
  /\ emitted = <<>>
  /\ removedByTerminal = {}
  /\ sourceEnded = {}
  /\ exchangeOrders = <<>>
  /\ cancelRequests = <<>>

\* The copy pipeline and the ledger, fed with messages of one update each.
PipeNext ==
  \/ \E wallet \in Wallets : \E updates \in MessagesOf(wallet, 1) :
       Deliver(wallet, updates)
  \/ \E i \in 1..MaxTasks, passed \in BOOLEAN : FilterDone(i, passed)
  \/ \E i \in 1..MaxTasks : CopyFail(i)
  \/ \E i \in 1..MaxTasks, inserted \in BOOLEAN : PostOrders(i, inserted)
  \/ \E i \in 1..MaxTasks : CopyReturn(i)
  \/ \E k \in 1..MaxDerived : ExchangeCancel(k)
  \/ \E k \in 1..MaxDerived : ExchangeFill(k)

\* RiskManager.clear is called
Clear ==
  /\ trackedOrders # <<>> \/ ordersByOriginal # <<>>
  /\ trackedOrders' = clear(Ledger).tracked
  /\ ordersByOriginal' = clear(Ledger).byOriginal
  /\ originalOrderHistory' = clear(Ledger).history
  /\ UNCHANGED <<autoCancelOnSource, copyTasks, emitted, removedByTerminal,
                 sourceEnded, exchangeOrders, cancelRequests, connVars, cfgVars>>

\* The copy pipeline and the ledger, with clear called at any moment.
ClearNext ==
  \/ \E wallet \in Wallets : \E updates \in MessagesOf(wallet, 1) :
       Deliver(wallet, updates)
  \/ \E i \in 1..MaxTasks, passed \in BOOLEAN : FilterDone(i, passed)
  \/ \E i \in 1..MaxTasks : CopyFail(i)
  \/ \E i \in 1..MaxTasks, inserted \in BOOLEAN : PostOrders(i, inserted)
  \/ \E i \in 1..MaxTasks : CopyReturn(i)
  \/ \E k \in 1..MaxDerived : ExchangeCancel(k)
  \/ \E k \in 1..MaxDerived : ExchangeFill(k)
  \/ Clear

vars == <<pipeVars, connVars, cfgVars>>

\* An engine that copies every order as it is: copying enabled, metadata
\* fetched, no stake adjustment, limits that hold the stake of every order.
PlainEngine == [enabled |-> TRUE, metadata |-> TRUE, method |-> "none", value |-> 0,
                minStake |-> 1, maxStake |-> 3]

\* No call of applyFilters is looked at: the pipeline takes its outcome as given.
NoLookups == marketCache = {} /\ lookups = <<>> /\ apiCalls = 0

PlainOdds == [odds |-> 0, stepSize |-> 1, method |-> "none", value |-> 0,
              ensureLadder |-> FALSE]

NoOddsCase == oddsCase = PlainOdds /\ oddsTrace = <<>>

NoFilterCase ==
  /\ filterCase = [filters |-> [sports |-> <<>>, marketTypes |-> <<>>, leagues |-> <<>>,
                                excludeParlay |-> FALSE, excludeLive |-> FALSE,
                                minOdds |-> NoOdds, maxOdds |-> NoOdds],
                   market |-> NoMarket, percentageOdds |-> 0, now |-> 0]
  /\ filterResult = NoResult

\* The pipeline of a started bot whose connection stays up.
Init ==
  /\ PipeInit /\ ConnStarted /\ copyEngine = PlainEngine
  /\ NoFilterCase /\ NoLookups /\ NoOddsCase /\ copyCall = NoCall
  /\ exposureStats = NoStats /\ apiCall = NoApiCall

Spec == Init /\ [][PipeNext]_vars

SpecClear == Init /\ [][ClearNext]_vars

\* The connection manager from construction on, with the bot's start and
\* shutdown; no feed message is handled.
ConnSpecInit ==
  /\ PipeInit /\ autoCancelOnSource /\ ConnInit /\ copyEngine = PlainEngine
  /\ NoFilterCase /\ NoLookups /\ NoOddsCase /\ copyCall = NoCall
  /\ exposureStats = NoStats /\ apiCall = NoApiCall

SpecConn == ConnSpecInit /\ [][ConnNext]_vars

\* The engines under test: every stake method with limits in either order, and
\* an engine that is disabled or was never initialized.  A percentage of 2000
\* is one that adjustStakeByPercentage refuses.
Percentages == {0, 50, 100, 200, 2000}

Engines ==
  {E \in [enabled : BOOLEAN, metadata : BOOLEAN,
           method : {"percentage", "fixed", "none"}, value : Percentages,
           minStake : 1..MaxLimit, maxStake : 1..MaxLimit] :
     /\ E.method # "percentage" => E.value = 0
     /\ ~(E.enabled /\ E.metadata)
          => (E.method = "none" /\ E.minStake = 1 /\ E.maxStake = MaxLimit)}

CopyInit ==
  /\ PipeInit /\ autoCancelOnSource
  /\ ConnStarted
  /\ copyEngine \in Engines
  /\ NoFilterCase /\ NoLookups /\ NoOddsCase /\ copyCall = NoCall
  /\ exposureStats = NoStats /\ apiCall = NoApiCall

\* Orders of the monitored wallet copied by an engine of any configuration.
CopyNext ==
  \/ \E updates \in MessagesOf("w1", 1) : Deliver("w1", updates)
  \/ \E i \in 1..MaxTasks, passed \in BOOLEAN : FilterDone(i, passed)
  \/ \E i \in 1..MaxTasks : CopyRejected(i)
  \/ \E i \in 1..MaxTasks : CopyFail(i)
  \/ \E i \in 1..MaxTasks, inserted \in BOOLEAN : PostOrders(i, inserted)
  \/ \E i \in 1..MaxTasks : CopyReturn(i)

SpecCopy == CopyInit /\ [][CopyNext]_vars

\* The filters, markets, orders and clock readings under test.  The allowed ids
\* are {1}; markets start at second 1, 2 or 3 and the clock is read around the
\* start of second 2; the odds limits are 0.6 and 0.8, and the odds are those
\* limits, their neighbours one unit away, and odds well below, between and above.
IdLists == {<<>>, <<1>>}
OddsAt(limit) == (limit * OddsOne) \div Tenths
OddsUnderTest ==
  {OddsAt(1), OddsAt(6) - 1, OddsAt(6), OddsAt(6) + 1, OddsAt(7), OddsAt(8) - 1,
   OddsAt(8), OddsAt(8) + 1, OddsAt(9)}
Clock == {2 * MsPerSecond - 1, 2 * MsPerSecond, 2 * MsPerSecond + 1}

FilterSets ==
  [sports : IdLists, marketTypes : IdLists, leagues : IdLists,
   excludeParlay : BOOLEAN, excludeLive : BOOLEAN,
   minOdds : {NoOdds, 6}, maxOdds : {NoOdds, 8}]

Markets ==
  {NoMarket} \cup [found : {TRUE}, sportId : 1..2, type : 1..2, leagueId : 1..2,
                   legs : 0..1, gameTime : 1..MaxGameTime]

FilterInit ==
  /\ PipeInit /\ autoCancelOnSource
  /\ ConnStarted
  /\ copyEngine = PlainEngine
  /\ filterCase \in [filters : FilterSets, market : Markets,
                      percentageOdds : OddsUnderTest, now : Clock]
  /\ filterResult = NoResult
  /\ NoLookups /\ NoOddsCase /\ copyCall = NoCall
  /\ exposureStats = NoStats /\ apiCall = NoApiCall

\* handleNewOrder's call of applyFilters returns
ApplyFilters ==
  /\ filterResult = NoResult
  /\ filterResult' = applyFilters(filterCase.filters, filterCase.market,
                                  [percentageOdds |-> filterCase.percentageOdds],
                                  filterCase.now)
  /\ UNCHANGED <<pipeVars, connVars, copyEngine, filterCase, mktVars, oddsVars,
                 copyCall, exposureStats, apiCall>>

FilterNext == ApplyFilters

SpecFilter == FilterInit /\ [][FilterNext]_vars

\* The market cache of a started monitor that lets only sport 1 through.
SportOneOnly ==
  [sports |-> <<1>>, marketTypes |-> <<>>, leagues |-> <<>>, excludeParlay |-> FALSE,
   excludeLive |-> FALSE, minOdds |-> NoOdds, maxOdds |-> NoOdds]

MarketInit ==
  /\ PipeInit /\ autoCancelOnSource
  /\ ConnStarted
  /\ copyEngine = PlainEngine
  /\ filterCase = [filters |-> SportOneOnly, market |-> NoMarket,
                   percentageOdds |-> 5, now |-> 0]
  /\ filterResult = NoResult
  /\ marketCache = {}
  /\ lookups = <<>>
  /\ apiCalls = 0
  /\ NoOddsCase /\ copyCall = NoCall
  /\ exposureStats = NoStats /\ apiCall = NoApiCall

\* applyFilters goes on with the market that getMarket returned, and
\* handleNewOrder emits orderDetected for an order that passes
Filtered(market) ==
  LET result == applyFilters(filterCase.filters, market,
                             [percentageOdds |-> filterCase.percentageOdds],
                             filterCase.now)
  IN /\ filterCase' = [filterCase EXCEPT !.market = market]
     /\ filterResult' = result
     /\ emitted' = IF result.passed
                   THEN <<Event("orderDetected", <<"s", 1>>, 0)>>
                   ELSE <<>>

\* handleNewOrder calls applyFilters for an order on a cached market
GetMarketCached(marketHash) ==
  /\ marketHash \in marketCache
  /\ Filtered(MarketOf(marketHash))
  /\ UNCHANGED <<trackedOrders, ordersByOriginal, originalOrderHistory,
                 autoCancelOnSource, copyTasks, removedByTerminal, sourceEnded,
                 exchangeOrders, cancelRequests, connVars, copyEngine, mktVars,
                 oddsVars, copyCall, exposureStats, apiCall>>

\* handleNewOrder calls applyFilters for an order on a market not in the cache:
\* getMarket calls apiClient.getMarkets and waits
GetMarketFetch(marketHash) ==
  /\ marketHash \notin marketCache
  /\ Len(lookups) < MaxLookups
  /\ apiCalls < MaxApiCalls
  /\ lookups' = Append(lookups, [marketHash |-> marketHash, calls |-> 1])
  /\ apiCalls' = apiCalls + 1
  /\ UNCHANGED <<pipeVars, connVars, copyEngine, filterCase, filterResult,
                 marketCache, oddsVars, copyCall, exposureStats, apiCall>>

\* apiClient.getMarkets settles and getMarket, applyFilters and handleNewOrder
\* run to their end
GetMarketsReturns(i, outcome) ==
  /\ i \in DOMAIN lookups
  /\ marketCache' = cacheAfterLookup(marketCache, lookups[i].marketHash, outcome)
  /\ lookups' = RemoveAt(lookups, i)
  /\ Filtered(marketAfterLookup(lookups[i].marketHash, outcome))
  /\ UNCHANGED <<trackedOrders, ordersByOriginal, originalOrderHistory,
                 autoCancelOnSource, copyTasks, removedByTerminal, sourceEnded,
                 exchangeOrders, cancelRequests, connVars, copyEngine, apiCalls,
                 oddsVars, copyCall, exposureStats, apiCall>>

\* OrderMonitor.stop, with no channel left to unsubscribe, clears the cache;
\* the monitor is started again afterwards
MonitorStop ==
  /\ marketCache' = {}
  /\ UNCHANGED <<pipeVars, connVars, copyEngine, filterCase, filterResult, lookups,
                 apiCalls, oddsVars, copyCall, exposureStats, apiCall>>

MarketNext ==
  \/ \E marketHash \in MarketHashes : GetMarketCached(marketHash)
  \/ \E marketHash \in MarketHashes : GetMarketFetch(marketHash)
  \/ \E i \in 1..MaxLookups, outcome \in LookupOutcomes : GetMarketsReturns(i, outcome)
  \/ MonitorStop

SpecMarket == MarketInit /\ [][MarketNext]_vars

\* The odds utilities, called on every maker odds up to one rung unit past 100%,
\* with every step size and adjustment under test.
OddsMethods == {"percentage", "fixed", "none"}

OddsCases ==
  [odds : 0..(OddsOne + RungUnit), stepSize : 0..MaxStepSize, method : OddsMethods,
   value : (0 - MaxAdjust)..MaxAdjust, ensureLadder : BOOLEAN]

OddsInit ==
  /\ PipeInit /\ autoCancelOnSource
  /\ ConnStarted
  /\ copyEngine = PlainEngine
  /\ NoFilterCase /\ NoLookups
  /\ oddsCase \in OddsCases
  /\ oddsTrace = <<>>
  /\ copyCall = NoCall
  /\ exposureStats = NoStats /\ apiCall = NoApiCall

Called(op, result, error) ==
  /\ oddsTrace' = Append(oddsTrace, [op |-> op, result |-> result, error |-> error])
  /\ UNCHANGED <<pipeVars, connVars, copyEngine, filterCase, filterResult, mktVars,
                 oddsCase, copyCall, exposureStats, apiCall>>

\* roundOddsToLadder on the odds, and then on its own result
RoundOddsToLadder ==
  \/ /\ oddsTrace = <<>>
     /\ Called("round", roundOddsToLadder(oddsCase.odds, oddsCase.stepSize),
               roundOddsToLadderError(oddsCase.stepSize))
  \/ /\ Len(oddsTrace) = 1
     /\ oddsTrace[1].op = "round"
     /\ oddsTrace[1].result # OddsThrown
     /\ Called("round", roundOddsToLadder(oddsTrace[1].result, oddsCase.stepSize),
               roundOddsToLadderError(oddsCase.stepSize))

\* adjustOddsBySteps on the odds, and then back by as many steps from its result
AdjustOddsBySteps ==
  \/ /\ oddsTrace = <<>>
     /\ Called("steps",
               adjustOddsBySteps(oddsCase.odds, oddsCase.value, oddsCase.stepSize),
               adjustOddsByStepsError(oddsCase.odds, oddsCase.value,
                                      oddsCase.stepSize))
  \/ /\ Len(oddsTrace) = 1
     /\ oddsTrace[1].op = "steps"
     /\ oddsTrace[1].result # OddsThrown
     /\ Called("steps",
               adjustOddsBySteps(oddsTrace[1].result, 0 - oddsCase.value,
                                 oddsCase.stepSize),
               adjustOddsByStepsError(oddsTrace[1].result, 0 - oddsCase.value,
                                      oddsCase.stepSize))

AdjustOddsByPercentage ==
  /\ oddsTrace = <<>>
  /\ Called("percentage",
            adjustOddsByPercentage(oddsCase.odds, oddsCase.value * PercentScale,
                                   oddsCase.ensureLadder, oddsCase.stepSize),
            adjustOddsByPercentageError(oddsCase.odds, oddsCase.value * PercentScale,
                                        oddsCase.ensureLadder, oddsCase.stepSize))

\* copyOrder calls this.adjustOdds on the odds of the source order
AdjustOdds ==
  /\ oddsTrace = <<>>
  /\ Called("adjustOdds", adjustOdds(oddsCase, oddsCase.odds),
            adjustOddsError(oddsCase, oddsCase.odds))

OddsNext ==
  \/ RoundOddsToLadder
  \/ AdjustOddsBySteps
  \/ AdjustOddsByPercentage
  \/ AdjustOdds

SpecOdds == OddsInit /\ [][OddsNext]_vars

\* copyOrder called again and again, for a source order at 50% or past 100%,
\* by an engine with any of the stake configurations and odds adjustments.
CopyOddsCases ==
  {O \in OddsCases : /\ O.odds \in {OddsOne \div 2, OddsOne + 1}
                     /\ O.stepSize \in {0, MaxStepSize}
                     /\ O.value = MaxAdjust}

CopyOrderInit ==
  /\ PipeInit /\ autoCancelOnSource
  /\ ConnStarted
  /\ copyEngine \in Engines
  /\ NoFilterCase /\ NoLookups
  /\ oddsCase \in CopyOddsCases
  /\ oddsTrace = <<>>
  /\ copyCall = NoCall
  /\ exposureStats = NoStats /\ apiCall = NoApiCall

\* handleOrderDetected calls copyOrder for a source order, and copyOrder returns
CopyOrder(env) ==
  LET originalOrder == OrderOf(Update(<<"s", 1>>, "ACTIVE", 1, 0, 0))
      result == copyOrder(copyEngine, oddsCase, originalOrder, env)
  IN /\ copyCall' = [env |-> env, result |-> result]
     /\ IF result.posted /\ env.post = "inserted"
        THEN /\ Len(exchangeOrders) < MaxDerived
             /\ exchangeOrders' =
                  Append(exchangeOrders,
                         [source |-> originalOrder.orderHash, status |-> "ACTIVE",
                          totalBetSize |-> adjustStake(copyEngine,
                                                       originalOrder.totalBetSize)])
        ELSE UNCHANGED exchangeOrders
     /\ UNCHANGED <<trackedOrders, ordersByOriginal, originalOrderHistory,
                    autoCancelOnSource, copyTasks, emitted, removedByTerminal,
                    sourceEnded, cancelRequests, connVars, copyEngine, filterCase,
                    filterResult, mktVars, oddsVars, exposureStats, apiCall>>

CopyOrderNext == \E env \in CopyEnvs : CopyOrder(env)

SpecCopyOrder == CopyOrderInit /\ [][CopyOrderNext]_vars

\* The ledger under recordOrder, removeOrder and getExposureStats, for the own
\* orders of the wallet: stakes of 0.004 and 0.01 USDC, unfilled or filled by
\* 0.004 USDC.
OwnHashes == SourceHashes \cup DerivedHashes
Snapshots ==
  {o \in [orderHash : OwnHashes, totalBetSize : {4000, 10000}, fillAmount : {0, 4000},
          pendingFillAmount : {0}] : TRUE}

LedgerInit ==
  /\ PipeInit /\ autoCancelOnSource
  /\ ConnStarted
  /\ copyEngine = PlainEngine
  /\ NoFilterCase /\ NoLookups /\ NoOddsCase /\ copyCall = NoCall
  /\ exposureStats = NoStats /\ apiCall = NoApiCall

SetTracked(L) ==
  /\ trackedOrders' = L.tracked
  /\ ordersByOriginal' = L.byOriginal
  /\ originalOrderHistory' = L.history
  /\ exposureStats' = NoStats
  /\ UNCHANGED <<autoCancelOnSource, copyTasks, emitted, removedByTerminal,
                 sourceEnded, exchangeOrders, cancelRequests, connVars, copyEngine,
                 filterCase, filterResult, mktVars, oddsVars, copyCall, apiCall>>

RecordOrder(order) ==
  /\ order \in Snapshots
  /\ SetTracked(recordOrder(Ledger, order))

RemoveOrder(orderHash) ==
  /\ orderHash \in OwnHashes
  /\ SetTracked(removeOrder(Ledger, orderHash))

GetExposureStats ==
  /\ exposureStats' = getExposureStats(Ledger)
  /\ UNCHANGED <<pipeVars, connVars, copyEngine, filterCase, filterResult, mktVars,
                 oddsVars, copyCall, apiCall>>

LedgerNext ==
  \/ \E order \in Snapshots : RecordOrder(order)
  \/ \E orderHash \in OwnHashes : RemoveOrder(orderHash)
  \/ GetExposureStats

SpecLedger == LedgerInit /\ [][LedgerNext]_vars

\* The connection manager of a running bot whose ledger is empty or holds one
\* copied order: d1, copied from s1, open on the exchange and tracked.
CopiedOrder ==
  [orderHash |-> <<"d", 1>>, totalBetSize |-> Stake, fillAmount |-> 0,
   pendingFillAmount |-> 0]

LedgersOfRunningBot ==
  LET empty == [tracked |-> <<>>, byOriginal |-> <<>>, history |-> {}]
  IN {empty, recordOrder(recordOrderMapping(empty, CopiedOrder, <<"s", 1>>),
                         CopiedOrder)}

CancelAllInit ==
  /\ \E L \in LedgersOfRunningBot :
       /\ trackedOrders = L.tracked
       /\ ordersByOriginal = L.byOriginal
       /\ originalOrderHistory = L.history
  /\ exchangeOrders = IF ordersByOriginal = <<>> THEN <<>>
                      ELSE <<[source |-> <<"s", 1>>, status |-> "ACTIVE",
                              totalBetSize |-> Stake]>>
  /\ autoCancelOnSource = TRUE
  /\ copyTasks = <<>> /\ emitted = <<>> /\ removedByTerminal = {}
  /\ sourceEnded = {} /\ cancelRequests = <<>>
  /\ ConnStarted
  /\ copyEngine = PlainEngine
  /\ NoFilterCase /\ NoLookups /\ NoOddsCase /\ copyCall = NoCall
  /\ exposureStats = NoStats /\ apiCall = NoApiCall

CancelAllNext ==
  \/ ConnectSucceeds
  \/ ConnectFails
  \/ Dispatch
  \/ TransportDrop
  \/ TransportSuspend
  \/ TransportRecover
  \/ TransportFail
  \/ TransportClosed
  \/ ReconnectTimer
  \/ \E thread \in {"rc", "sd"}, ok \in BOOLEAN : DetachDone(thread, ok)
  \/ \E ok \in BOOLEAN : UnsubscribeDone(ok)
  \/ Signal

SpecCancelAll == CancelAllInit /\ [][CancelAllNext]_vars

\* The percentage utilities, called on prices from one rung unit below 0 to one
\* past 100% and on every stake string up to MaxStakeLen characters.  The
\* percentages are thousandths of a percent: for odds -200%, -100.01%, -100%,
\* -10%, -2.006%, -2.005%, 0, 0.004%, 1.994%, 1.995%, 2%, 10% and 100%; for
\* stakes -0.001%, 0, 0.194%, 0.195%, 50%, 100%, 1000% and 1000.001%.
OddsPercentages ==
  {0 - 200000, 0 - 100010, 0 - 100000, 0 - 10000, 0 - 2006, 0 - 2005, 0, 4, 1994,
   1995, 2000, 10000, 100000}
StakePercentages == {0 - 1, 0, 194, 195, 50000, 100000, 1000000, 1000001}
StakeChars == {"0", "5", ".", "-"}
StakeStrings == UNION {[1..n -> StakeChars] : n \in 0..MaxStakeLen}

PercentCases ==
  [odds : (0 - RungUnit)..(OddsOne + RungUnit), stepSize : 0..MaxStepSize,
   method : {"percentage"}, value : {0}, ensureLadder : BOOLEAN,
   percentage : OddsPercentages, stake : {<<"0">>}]
  \cup [odds : {0}, stepSize : {1}, method : {"none"}, value : {0},
         ensureLadder : {FALSE}, percentage : StakePercentages,
         stake : StakeStrings]

PercentInit ==
  /\ PipeInit /\ autoCancelOnSource
  /\ ConnStarted
  /\ copyEngine = PlainEngine
  /\ NoFilterCase /\ NoLookups
  /\ oddsCase \in PercentCases
  /\ oddsTrace = <<>>
  /\ copyCall = NoCall
  /\ exposureStats = NoStats /\ apiCall = NoApiCall

\* adjustOddsByPercentage on the odds
PercentageOfOdds ==
  /\ oddsTrace = <<>>
  /\ oddsCase.method = "percentage"
  /\ Called("percentage",
            adjustOddsByPercentage(oddsCase.odds, oddsCase.percentage,
                                   oddsCase.ensureLadder, oddsCase.stepSize),
            adjustOddsByPercentageError(oddsCase.odds, oddsCase.percentage,
                                        oddsCase.ensureLadder, oddsCase.stepSize))

\* adjustStakeByPercentage on the stake string
PercentageOfStake ==
  /\ oddsTrace = <<>>
  /\ oddsCase.method = "none"
  /\ Called("stake",
            IF isValidBigNumberString(oddsCase.stake)
            THEN adjustStakeByPercentage(BigNumberFrom(oddsCase.stake),
                                         oddsCase.percentage)
            ELSE NoStake,
            adjustStakeByPercentageError(oddsCase.stake, oddsCase.percentage))

PercentNext ==
  \/ PercentageOfOdds
  \/ PercentageOfStake

SpecPercent == PercentInit /\ [][PercentNext]_vars

\* The API client, called again once a call has ended.
ApiInit ==
  /\ PipeInit /\ autoCancelOnSource
  /\ ConnStarted
  /\ copyEngine = PlainEngine
  /\ NoFilterCase /\ NoLookups /\ NoOddsCase /\ copyCall = NoCall
  /\ exposureStats = NoStats
  /\ apiCall = NoApiCall

SetApiCall(call) ==
  /\ apiCall' = call
  /\ UNCHANGED <<pipeVars, connVars, copyEngine, filterCase, filterResult, mktVars,
                 oddsVars, copyCall, exposureStats>>

\* postOrders calls request, which calls fetch
ApiRequest ==
  /\ apiCall.pc \in {"idle", "done"}
  /\ SetApiCall([NoApiCall EXCEPT !.pc = "fetch"])

\* the fetch settles
FetchSettles(outcome) ==
  /\ apiCall.pc = "fetch"
  /\ SetApiCall(request(apiCall, outcome))

\* the backoff timer fires: request calls itself with retryCount + 1
BackoffDone ==
  /\ apiCall.pc = "backoff"
  /\ SetApiCall([apiCall EXCEPT !.pc = "fetch", !.retryCount = @ + 1])

ApiNext ==
  \/ ApiRequest
  \/ \E outcome \in FetchOutcomes : FetchSettles(outcome)
  \/ BackoffDone

SpecApi == ApiInit /\ [][ApiNext]_vars

\* Event ingestion alone, fed with messages of up to MaxBatchLen updates.  The
\* bot's wallet starts with one order of its own on the exchange (placed before
\* this process started), in any state.
BatchInit ==
  /\ trackedOrders = <<>>
  /\ ordersByOriginal = <<>>
  /\ originalOrderHistory = {}
  /\ autoCancelOnSource \in BOOLEAN
  /\ copyTasks = <<>>
  /\ emitted = <<>>
  /\ removedByTerminal = {}
  /\ sourceEnded = {}
  /\ \E s \in Statuses : exchangeOrders = <<[source |-> NoHash, status |-> s,
                                           totalBetSize |-> Stake]>>
  /\ cancelRequests = <<>>

BatchNext ==
  \/ \E wallet \in Wallets, n \in 1..MaxBatchLen :
       \E updates \in MessagesOf(wallet, n) : Deliver(wallet, updates)
  \/ \E i \in 1..MaxTasks, passed \in BOOLEAN : FilterDone(i, passed)
  \/ \E i \in 1..MaxTasks : CopyFail(i)

BatchSpecInit ==
  /\ BatchInit /\ ConnStarted /\ copyEngine = PlainEngine
  /\ NoFilterCase /\ NoLookups /\ NoOddsCase /\ copyCall = NoCall
  /\ exposureStats = NoStats /\ apiCall = NoApiCall

SpecBatch == BatchSpecInit /\ [][BatchNext]_vars

\* ======================================================= claims
CopiesOf(s) == {k \in DOMAIN exchangeOrders : exchangeOrders[k].source = s}
MappingsOf(s) == {i \in DOMAIN ordersByOriginal : ordersByOriginal[i].original = s}
CopiesInFlight(s) ==
  {i \in DOMAIN copyTasks :
     copyTasks[i].order.orderHash = s /\ copyTasks[i].pc \in {"copy", "posted"}}
CancelRequested(hash) == \E j \in DOMAIN cancelRequests : cancelRequests[j] = hash

\* C1: whatever deliveries of a source order's ACTIVE event arrive, the exchange
\* receives at most one derived order for that source hash and the ledger holds
\* at most one mapping for it.
C1_AtMostOneDerivedOrder ==
  \A s \in SourceHashes :
    /\ Cardinality(CopiesOf(s)) <= 1
    /\ Cardinality(MappingsOf(s)) <= 1

\* C2: two copyOrder calls for the same source hash are never in flight at the
\* same time.
C2_OneCopyInFlight ==
  \A s \in SourceHashes : Cardinality(CopiesInFlight(s)) <= 1

\* C3: with autoCancelOnSource enabled and a mapping (H1, H2) recorded, handling
\* a cancellation event for H1 issues exactly one cancel request, naming H2, and
\* leaves findCopiedOrder(H1) absent.
C3_CascadingCancellation ==
  [][\A s \in SourceHashes :
       (/\ autoCancelOnSource
        /\ MapHas(ordersByOriginal, s)
        /\ emitted' # emitted
        /\ emitted' = <<Event("orderCancelled", s, 1)>>)
       => /\ cancelRequests' = Append(cancelRequests, MapGet(ordersByOriginal, s))
          /\ findCopiedOrder(Ledger, s)' = NoOrder]_vars

\* C4: with autoCancelOnSource enabled, once the terminal event of a source order
\* that was copied or being copied has been handled and no call is in flight any
\* more, a cancel request has been issued for every derived order of that source
\* that is still open on the exchange.
C4_NoOpenCopyOfEndedSource ==
  (autoCancelOnSource /\ copyTasks = <<>>)
  => \A k \in DOMAIN exchangeOrders :
       (exchangeOrders[k].status = "ACTIVE" /\ exchangeOrders[k].source \in sourceEnded)
       => CancelRequested(<<"d", k>>)

\* C5: the lifecycle events caused by one feed message are handed to the
\* listeners in ascending updateTime order.
C5_EventsInUpdateTimeOrder ==
  \A i, j \in DOMAIN emitted :
    (i < j /\ emitted[i].updateTime > 0 /\ emitted[j].updateTime > 0)
    => emitted[i].updateTime <= emitted[j].updateTime

\* C6: whenever a running bot's connection is connected again and the connection
\* manager is at rest, every channel the monitor registered is in the subscribed
\* set and has its message handler attached: the subscribed set equals the set
\* before the drop.
C6_SubscriptionsRestored ==
  (/\ botPc = "running" /\ ~shuttingDown
   /\ connectionState = "connected"
   /\ notice = "none" /\ rc = Idle)
  => /\ Range(subscribedChannels) = Range(channelHandlers)
     /\ attached = Range(channelHandlers)

\* C7: at the moment 'connected' is emitted and isConnected() returns true, every
\* channel registered before is in the subscribed set.
C7_ResubscribedBeforeConnected ==
  (notice = "connected" /\ isConnected(ConnState) /\ ~shuttingDown)
  => Range(channelHandlers) \subseteq Range(subscribedChannels)

\* C8: the client makes at most maxRetries reconnect attempts, emits
\* maxRetriesReached at most once, and from the emission on the connection state
\* is failed and stays failed, with no further attempt scheduled or running.
C8_BoundedRetriesThenFailed ==
  /\ reconnectAttempts <= maxRetries
  /\ maxRetriesNotices <= 1
  /\ maxRetriesNotices = 1 => (connectionState = "failed" /\ rc = Idle)

\* C9: handling the own-wallet cancellation or fill event of a derived order H2
\* mapped from H1 leaves the ledger without a mapping entry for H1 and
\* findCopiedOrder(H1) absent.
C9_MappingRemovedWithDerived ==
  [][\A s \in SourceHashes :
       (/\ MapHas(ordersByOriginal, s)
        /\ emitted' # emitted
        /\ \E ev \in {"ownOrderCancelled", "ownOrderFilled"} :
             emitted' = <<Event(ev, MapGet(ordersByOriginal, s), 1)>>)
       => /\ ~MapHas(ordersByOriginal, s)'
          /\ findCopiedOrder(Ledger, s)' = NoOrder]_vars

\* C10: an own-wallet order that its cancellation or fill event has removed from
\* tracking is not tracked again, whatever is delivered afterwards.
C10_NoTrackingAfterTerminal ==
  \A h \in DOMAIN trackedOrders : h \notin removedByTerminal

\* C11: a copy that ends with a failed result leaves the ledger as it was; the
\* copy pipeline changes the ledger only by recordOrderMapping, called with the
\* derived order of a successful result.
C11_FailedCopyLeavesLedger ==
  [][Ledger' # Ledger
     => \E i \in DOMAIN copyTasks :
          /\ copyTasks[i].pc = "posted"
          /\ copyTasks[i].result # NoHash
          /\ copyTasks' = RemoveAt(copyTasks, i)
          /\ Ledger' = recordOrderMapping(Ledger, [orderHash |-> copyTasks[i].result],
                                          copyTasks[i].order.orderHash)]_vars

\* an order was detected, its copy has ended without an order on the exchange,
\* and the ledger is empty
C11_Witness ==
  /\ \E j \in DOMAIN emitted : emitted[j].event = "orderDetected"
  /\ copyTasks = <<>>
  /\ exchangeOrders = <<>>
  /\ ordersByOriginal = <<>> /\ originalOrderHistory = {} /\ DOMAIN trackedOrders = {}

SourceOrder == OrderOf(Update(<<"s", 1>>, "ACTIVE", 1, 0, 0))

Ready(E) == E.enabled /\ E.metadata /\ methodStake(E, Stake) # NoStake

Clamped(stake, minStake, maxStake) ==
  IF stake < minStake THEN minStake ELSE IF stake > maxStake THEN maxStake ELSE stake

\* C13: with minStake <= maxStake the copy of an order goes on whatever the
\* method gives, and every order submitted has the method's stake clamped into
\* [minStake, maxStake].
C13_StakeClampedIntoLimits ==
  (Ready(copyEngine) /\ copyEngine.minStake <= copyEngine.maxStake)
  => /\ copyOrderError(copyEngine, SourceOrder) = ""
     /\ \A k \in DOMAIN exchangeOrders :
          /\ exchangeOrders[k].totalBetSize
               = Clamped(methodStake(copyEngine, Stake),
                         copyEngine.minStake, copyEngine.maxStake)
          /\ copyEngine.minStake <= exchangeOrders[k].totalBetSize
          /\ exchangeOrders[k].totalBetSize <= copyEngine.maxStake

C13_Witness ==
  /\ Ready(copyEngine) /\ copyEngine.minStake <= copyEngine.maxStake
  /\ methodStake(copyEngine, Stake) > copyEngine.maxStake
  /\ exchangeOrders # <<>>

\* C14: when the transport drops or suspends a connected session, the connection
\* state becomes reconnecting; it becomes disconnected only in disconnect().
C14_DropMeansReconnecting ==
  [][/\ (TransportDrop \/ TransportSuspend) => connectionState' = "reconnecting"
     /\ (connectionState # "disconnected" /\ connectionState' = "disconnected")
        => (client /\ ~client')]_vars

\* C15: a connect attempt that fails or times out leaves either a reconnect
\* attempt scheduled or maxRetriesReached emitted, for the connect() of start()
\* as for the connect() of reconnect().
C15_FailedConnectTriggersReconnect ==
  [][ConnectFails
     => \/ rc'.pc = "timer" /\ connectionState' = "reconnecting"
        \/ notice' = "maxRetriesReached" /\ connectionState' = "failed"]_vars

\* C16: 0 <= reconnectAttempts <= maxRetries; the counter is 0 whenever the
\* session is reported connected; it changes only by one more with a reconnect
\* attempt scheduled, or to 0 with the session connected; and every attempt
\* scheduled counts.
C16_ReconnectCounter ==
  /\ [](/\ 0 <= reconnectAttempts /\ reconnectAttempts <= maxRetries
        /\ (connectionState = "connected" \/ notice = "connected")
             => reconnectAttempts = 0)
  /\ [][/\ reconnectAttempts' # reconnectAttempts
           => \/ /\ reconnectAttempts' = reconnectAttempts + 1
                 /\ rc.pc # "timer" /\ rc'.pc = "timer"
              \/ /\ reconnectAttempts' = 0
                 /\ connectionState' = "connected"
        /\ (rc.pc # "timer" /\ rc'.pc = "timer")
           => reconnectAttempts' = reconnectAttempts + 1]_vars

\* a session reconnected by reconnect(): the counter was raised and is 0 again
C16_Witness ==
  /\ botPc = "running" /\ ~shuttingDown
  /\ connectionState = "connected" /\ notice = "none"
  /\ subscribedChannels = <<>>
  /\ reconnectAttempts = 0

\* C17: for a source hash that has a mapping, recordOrderMapping with any derived
\* order leaves the whole ledger as it is, the mapping still naming the derived
\* hash recorded first; no source hash has two mappings.
C17_RecordOrderMappingIdempotent ==
  \A s \in SourceHashes :
    /\ Cardinality(MappingsOf(s)) <= 1
    /\ MapHas(ordersByOriginal, s)
       => \A h \in DerivedHashes :
            recordOrderMapping(Ledger, [orderHash |-> h], s) = Ledger

\* two copies of one source order were made and both were recorded, the second
\* with the mapping of the first in place
C17_Witness ==
  \E s \in SourceHashes :
    /\ Cardinality(CopiesOf(s)) = 2
    /\ copyTasks = <<>>
    /\ removedByTerminal = {}
    /\ MapHas(ordersByOriginal, s)

\* the events one update of a feed message causes before any await returns
Classified(wallet, u) ==
  LET own == wallet = selfWalletAddress
  IN CASE u.status = "INACTIVE" ->
            <<Event(IF own THEN "ownOrderCancelled" ELSE "orderCancelled",
                    u.orderHash, u.updateTime)>>
       [] u.status = "FILLED" ->
            <<Event(IF own THEN "ownOrderFilled" ELSE "orderFilled",
                    u.orderHash, u.updateTime)>>
       [] u.status = "ACTIVE" /\ u.pendingFillAmount = 0 /\ own ->
            <<Event("ownOrderDetected", u.orderHash, u.updateTime)>>
       [] OTHER -> <<>>

Started(c) == c.market.gameTime * MsPerSecond <= c.now

FirstFailing(c) ==
  LET f == c.filters
      m == c.market
  IN CASE ~m.found -> "Market not found"
       [] m.found /\ f.sports # <<>> /\ ~Includes(f.sports, m.sportId) ->
            "Sport not in allowed list"
       [] OTHER ->
     CASE f.marketTypes # <<>> /\ ~Includes(f.marketTypes, m.type) ->
            "Market type not in allowed list"
       [] OTHER ->
     CASE f.leagues # <<>> /\ ~Includes(f.leagues, m.leagueId) ->
            "League not in allowed list"
       [] OTHER ->
     CASE f.excludeParlay /\ m.legs > 0 -> "Parlay markets excluded"
       [] OTHER ->
     CASE f.excludeLive /\ Started(c) -> "Live markets excluded"
       [] OTHER ->
     CASE f.minOdds # NoOdds /\ c.percentageOdds * Tenths < f.minOdds * OddsOne ->
            "Odds below minimum"
       [] OTHER ->
     CASE f.maxOdds # NoOdds /\ c.percentageOdds * Tenths > f.maxOdds * OddsOne ->
            "Odds above maximum"
       [] OTHER -> ""

\* C19: applyFilters passes an order exactly when its market is found and every
\* condition switched on holds, and a rejection names the first failing
\* condition in the order sport, market type, league, parlay, live, odds.
C19_FiltersPassIffAllHold ==
  filterResult # NoResult
  => /\ filterResult.passed <=> FirstFailing(filterCase) = ""
     /\ filterResult.reason = FirstFailing(filterCase)

\* C20: with excludeLive on, an order that holds the conditions before it is
\* rejected as live exactly when its market starts at or before the clock
\* reading.
C20_LiveAtOrBeforeNow ==
  (/\ filterResult # NoResult
   /\ filterCase.filters.excludeLive
   /\ FirstFailing([filterCase EXCEPT !.filters.excludeLive = FALSE,
                                      !.filters.minOdds = NoOdds,
                                      !.filters.maxOdds = NoOdds]) = "")
  => (filterResult.reason = "Live markets excluded" <=> Started(filterCase))

\* C21: a lookup that fails or finds no market rejects the order with "Market
\* not found", emits no orderDetected, caches nothing and makes no further
\* call; a lookup that succeeds is cached, an order on a cached market is
\* filtered without a call, and only stop() takes a market out of the cache.
C21_MarketLookup ==
  [][/\ \A i \in DOMAIN lookups, outcome \in {"empty", "error"} :
          GetMarketsReturns(i, outcome)
          => /\ filterResult' = [passed |-> FALSE, reason |-> "Market not found"]
             /\ emitted' = <<>>
             /\ marketCache' = marketCache
             /\ apiCalls' = apiCalls
             /\ lookups[i].calls = 1
     /\ \A i \in DOMAIN lookups :
          GetMarketsReturns(i, "found") => lookups[i].marketHash \in marketCache'
     /\ \A marketHash \in marketCache :
          /\ ~ENABLED GetMarketFetch(marketHash)
          /\ GetMarketCached(marketHash)
             => /\ apiCalls' = apiCalls
                /\ filterCase'.market = MarketOf(marketHash)
          /\ marketHash \in marketCache' \/ MonitorStop]_vars

C21_Witness ==
  /\ marketCache # {}
  /\ apiCalls = MaxApiCalls
  /\ filterResult.reason = "Market not found"

\* the odds are a whole number of rungs of the ladder with this step size
Multiple(odds, stepSize) == \E k \in 0..OddsOne : odds = k * (RungUnit * stepSize)

\* C27: with ensureLadderCompliance on, the odds that adjustOdds gives copyOrder
\* for a valid source price, whatever the method, and the odds that
\* adjustOddsByPercentage returns with ensureLadder, are a multiple of the rung.
C27_DerivedOddsOnLadder ==
  (/\ oddsTrace # <<>>
   /\ oddsTrace[1].op \in {"adjustOdds", "percentage"}
   /\ oddsCase.ensureLadder
   /\ isValidOdds(oddsCase.odds)
   /\ oddsTrace[1].result # OddsThrown)
  => Multiple(oddsTrace[1].result, oddsCase.stepSize)

C27_Witness ==
  /\ oddsTrace # <<>>
  /\ oddsTrace[1].op = "adjustOdds"
  /\ oddsCase.ensureLadder
  /\ oddsCase.method = "fixed"
  /\ oddsCase.value = 1
  /\ oddsCase.stepSize = 2
  /\ ~Multiple(oddsCase.odds, oddsCase.stepSize)
  /\ oddsTrace[1].result > 0

\* C28: roundOddsToLadder applied to its own result returns that result.
C28_RoundingIdempotent ==
  (Len(oddsTrace) = 2 /\ oddsTrace[1].op = "round")
  => oddsTrace[2].result = oddsTrace[1].result

C28_Witness ==
  /\ Len(oddsTrace) = 2
  /\ oddsTrace[1].op = "round"
  /\ oddsCase.stepSize = MaxStepSize
  /\ oddsCase.odds # oddsTrace[1].result
  /\ oddsTrace[2].result > 0

\* C29: roundOddsToLadder returns the largest multiple of the rung that is at
\* most the odds: never more than the odds, less than one rung below them, and
\* the odds themselves when they are on the ladder.
C29_RoundsDown ==
  (/\ oddsTrace # <<>>
   /\ oddsTrace[1].op = "round"
   /\ oddsCase.stepSize > 0)
  => LET result == oddsTrace[1].result
         rung == RungUnit * oddsCase.stepSize
     IN /\ Multiple(result, oddsCase.stepSize)
        /\ result <= oddsCase.odds
        /\ oddsCase.odds - result < rung
        /\ Multiple(oddsCase.odds, oddsCase.stepSize) => result = oddsCase.odds

C29_Witness ==
  /\ Len(oddsTrace) = 1
  /\ oddsTrace[1].op = "round"
  /\ oddsCase.stepSize = 2
  /\ oddsCase.odds - oddsTrace[1].result = RungUnit * 2 - 1

\* C30: when adjustOddsBySteps succeeds and adjustOddsBySteps on its result with
\* the opposite step count succeeds too, the second result is the first odds.
C30_StepsRoundTrip ==
  (/\ Len(oddsTrace) = 2
   /\ oddsTrace[1].op = "steps"
   /\ oddsTrace[2].result # OddsThrown)
  => oddsTrace[2].result = oddsCase.odds

C30_Witness ==
  /\ Len(oddsTrace) = 2
  /\ oddsTrace[1].op = "steps"
  /\ oddsCase.value < 0
  /\ oddsCase.stepSize > 1
  /\ oddsTrace[1].result # oddsCase.odds
  /\ oddsTrace[2].result = oddsCase.odds

\* what went wrong in the latest call of copyOrder, by the configuration and by
\* what its collaborators did
OddsFailure == adjustOdds(oddsCase, oddsCase.odds) = OddsThrown

StakeFailure ==
  LET derived == adjustStake(copyEngine, Stake)
  IN derived = NoStake \/ derived < copyEngine.minStake \/ derived > copyEngine.maxStake

\* C22: copyOrder returns every failure as a failed result and never throws:
\* disabled, it returns at once with no delay, signature or request; an odds
\* adjustment error, a stake outside the limits, a signing error and a response
\* with nothing inserted each give success = false with a reason; nothing is
\* submitted after a validation or signing failure; the connection is as it
\* was and the next call is made.
C22_FailuresAreValues ==
  /\ [](copyCall # NoCall =>
        LET r == copyCall.result
            env == copyCall.env
            ready == copyEngine.enabled /\ copyEngine.metadata
        IN /\ ~r.thrown
           /\ r.success <=> r.error = ""
           /\ ~copyEngine.enabled
                => /\ ~r.success /\ r.error = "Order copying is disabled"
                   /\ ~r.slept /\ ~r.signed /\ ~r.posted
           /\ (ready /\ (OddsFailure \/ StakeFailure))
                => ~r.success /\ ~r.signed /\ ~r.posted
           /\ (ready /\ ~OddsFailure /\ ~StakeFailure /\ ~env.signOk)
                => ~r.success /\ ~r.posted
           /\ (ready /\ ~OddsFailure /\ ~StakeFailure /\ env.signOk
                 /\ env.post = "zero")
                => ~r.success /\ r.error = "Order submission failed"
           /\ connectionState = "connected" /\ transport = "connected"
           /\ ~r.success => \E next \in CopyEnvs : ENABLED CopyOrder(next))
  /\ [][~copyCall'.result.success => exchangeOrders' = exchangeOrders]_vars

C22_Witness ==
  /\ copyCall # NoCall
  /\ copyEngine.enabled /\ copyEngine.metadata
  /\ ~OddsFailure /\ ~StakeFailure
  /\ copyCall.env.signOk
  /\ copyCall.env.post = "zero"
  /\ exchangeOrders # <<>>

\* the sum of totalBetSize - fillAmount over the latest snapshots of the tracked
\* orders
RECURSIVE UnfilledStake(_)
UnfilledStake(hashes) ==
  IF hashes = {} THEN 0
  ELSE LET h == CHOOSE x \in hashes : TRUE
       IN trackedOrders[h].totalBetSize - trackedOrders[h].fillAmount
            + UnfilledStake(hashes \ {h})

\* C23: getExposureStats reports the number of tracked order hashes and, as total
\* exposure, the sum of totalBetSize - fillAmount over the tracked orders.
C23_ExposureStats ==
  exposureStats # NoStats
  => /\ exposureStats.totalOpenOrders = Cardinality(DOMAIN trackedOrders)
     /\ exposureStats.totalOpenExposure * (WeiPerToken \div 100)
          = UnfilledStake(DOMAIN trackedOrders)

\* C24: once the first shutdown has completed, the transport is disconnected and
\* no subscription remains, from whatever state of the bot it was called.
C24_ShutdownTearsDown ==
  sd.pc = "done"
  => /\ transport \notin {"connecting", "connected"}
     /\ subscribedChannels = <<>>
     /\ attached = {}

\* C25: when disconnect() is about to return, having emitted its notification,
\* there is no client, the state is disconnected, isConnected() is false and
\* the set of subscribed channels is empty; disconnect() called without a
\* client emits nothing and leaves the subscribed channels alone; subscribe()
\* without a client registers nothing.
C25_DisconnectTearsDown ==
  /\ []((notice = "disconnected" /\ resume \in {"rc", "sd"})
        => /\ ~client
           /\ connectionState = "disconnected"
           /\ ~isConnected(ConnState)
           /\ subscribedChannels = <<>>)
  /\ [](~client => \A wallet \in Wallets, withHandler \in BOOLEAN :
                     subscribe(ConnState, ChannelOf(wallet), withHandler) = ConnState)
  /\ [][(~client /\ ReconnectTimer)
         => notice' = "none" /\ subscribedChannels' = subscribedChannels]_vars

C25_Witness ==
  /\ notice = "disconnected"
  /\ resume = "rc"
  /\ rc.pc = "closed"
  /\ channelHandlers # <<>>
  /\ reconnectAttempts = maxRetries

\* C26: the API client retries only after a transport failure (network error or
\* timeout), makes at most maxRetries + 1 fetches, and reports a non-success
\* HTTP status or a failure status in the body without a retry.
C26_RetryOnTransportFailureOnly ==
  /\ Len(apiCall.fetches) <= apiMaxRetries + 1
  /\ \A i \in DOMAIN apiCall.fetches :
       (i < Len(apiCall.fetches) \/ apiCall.pc = "backoff")
       => apiCall.fetches[i] \in TransportFailures

\* the price is in the range of valid odds
InRange(odds) == odds >= 0 /\ odds <= OddsOne

\* C31: adjustOddsBySteps(p, s, step) returns p plus s rungs when p and that sum
\* are in the range of valid odds; it fails with 'Invalid maker odds' when p is
\* not, with 'Adjusted odds would be negative' when the sum is below 0 and with
\* 'Adjusted odds out of valid range' when it is above 100%; a price on the
\* ladder stays on it.
C31_StepsExact ==
  (oddsTrace # <<>> /\ oddsTrace[1].op = "steps")
  => LET sum == oddsCase.odds + oddsCase.value * oddsCase.stepSize * RungUnit
         call == oddsTrace[1]
     IN /\ (InRange(oddsCase.odds) /\ InRange(sum))
             => (call.result = sum /\ call.error = "")
        /\ ~InRange(oddsCase.odds)
             => (call.result = OddsThrown /\ call.error = "Invalid maker odds")
        /\ (InRange(oddsCase.odds) /\ sum < 0)
             => (call.result = OddsThrown
                 /\ call.error = "Adjusted odds would be negative")
        /\ (InRange(oddsCase.odds) /\ sum > OddsOne)
             => (call.result = OddsThrown
                 /\ call.error = "Adjusted odds out of valid range")
        /\ (call.error = "" /\ isOnOddsLadder(oddsCase.odds, oddsCase.stepSize))
             => Multiple(call.result, oddsCase.stepSize)

C31_Witness ==
  /\ Len(oddsTrace) = 1
  /\ oddsTrace[1].op = "steps"
  /\ oddsCase.value < 0
  /\ oddsCase.odds > 0
  /\ oddsTrace[1].error = "Adjusted odds would be negative"

\* the whole number nearest to percentage * 100, a half counting upward
IsRounded(bps, percentage) ==
  /\ 2 * PercentScale * bps - PercentScale <= 2 * percentage * 100
  /\ 2 * percentage * 100 < 2 * PercentScale * bps + PercentScale

\* quotient is the floor of product / BasisPoints
IsFloor(quotient, product) ==
  /\ quotient * BasisPoints <= product
  /\ product < (quotient + 1) * BasisPoints

\* quotient is product / BasisPoints with the fraction dropped
IsTruncated(quotient, product) ==
  IF product >= 0 THEN IsFloor(quotient, product)
  ELSE IsFloor(0 - quotient, 0 - product)

\* the largest multiple of the rung that is at most q
FloorToRung(q, rung) ==
  CHOOSE m \in (q - rung + 1)..q : \E k \in (0 - 2 * OddsOne)..(2 * OddsOne) : m = k * rung

\* the multiple of the rung next to q on the side of 0
TruncateToRung(q, rung) ==
  IF q >= 0 THEN FloorToRung(q, rung) ELSE 0 - FloorToRung(0 - q, rung)

\* What a call of adjustOddsByPercentage gave, against the quotient of
\* p * (10000 + round(pct * 100)) by 10000 and its rounding to the ladder with
\* ensureLadder, under the given reading of the two divisions.
PercentageContract(IsQuotient(_, _), ToRung(_, _)) ==
  (/\ oddsTrace # <<>>
   /\ oddsTrace[1].op = "percentage"
   /\ oddsCase.method = "percentage"
   /\ oddsCase.ensureLadder => oddsCase.stepSize > 0)
  => LET call == oddsTrace[1]
         rung == RungUnit * oddsCase.stepSize
     IN IF ~InRange(oddsCase.odds)
        THEN call.result = OddsThrown /\ call.error = "Invalid maker odds"
        ELSE \E bps \in {roundedBps(oddsCase.percentage) - 1,
                          roundedBps(oddsCase.percentage),
                          roundedBps(oddsCase.percentage) + 1} :
               /\ IsRounded(bps, oddsCase.percentage)
               /\ \E q \in (0 - 2 * OddsOne)..(2 * OddsOne + 2 * RungUnit) :
                    /\ IsQuotient(q, oddsCase.odds * (BasisPoints + bps))
                    /\ LET expected ==
                             IF oddsCase.ensureLadder THEN ToRung(q, rung) ELSE q
                       IN IF InRange(expected)
                          THEN call.result = expected /\ call.error = ""
                          ELSE /\ call.result = OddsThrown
                               /\ call.error = "Adjusted odds out of valid range"

\* The contract as the code keeps it: both divisions are BigNumber.div, which
\* drops the fraction.  The result is the floor, rounded down to the ladder,
\* whenever the product is not negative; a negative product less than 10000
\* from 0, or with ensureLadder a negative quotient less than a rung from 0,
\* gives 0, which is returned.
TruncatingContract == PercentageContract(IsTruncated, TruncateToRung)

\* C32: adjustOddsByPercentage returns the floor of
\* p * (10000 + round(pct * 100)) / 10000, rounded down to the ladder with
\* ensureLadder; it fails with 'Invalid maker odds' when p is outside the range
\* of valid odds and with 'Adjusted odds out of valid range' when the result is.
C32_PercentageFloor == PercentageContract(IsFloor, FloorToRung)

\* C33: for a valid price and a percentage above 0, the price that
\* adjustOddsByPercentage returns, with or without ladder rounding, is strictly
\* greater than the price handed in.
C33_StrictlyGreater ==
  (/\ oddsTrace # <<>>
   /\ oddsTrace[1].op = "percentage"
   /\ oddsCase.method = "percentage"
   /\ InRange(oddsCase.odds)
   /\ oddsCase.percentage > 0
   /\ oddsTrace[1].error = "")
  => oddsTrace[1].result > oddsCase.odds

\* the characters are not those of an integer: none at all, a point, a minus
\* sign that is not in front, or a minus sign alone
NotInteger(chars) ==
  \/ chars = <<>>
  \/ chars = <<"-">>
  \/ \E i \in DOMAIN chars : chars[i] = "."
  \/ \E i \in DOMAIN chars : i > 1 /\ chars[i] = "-"

\* the characters are decimal digits, and n is the number they stand for
RECURSIVE IsNumeral(_, _)
IsNumeral(chars, n) ==
  IF Len(chars) = 1
  THEN n \in 0..9 /\ DecimalDigits[n + 1] = chars[1]
  ELSE /\ n >= 0
       /\ DecimalDigits[(n % 10) + 1] = chars[Len(chars)]
       /\ IsNumeral(SubSeq(chars, 1, Len(chars) - 1), n \div 10)

\* C34: adjustStakeByPercentage(stake, pct) returns the floor of
\* stake * round(pct * 100) / 10000 for a stake that is a non-negative integer
\* and 0 <= pct <= 1000 (the stake at 100, 0 at 0, half of it at 50); it fails
\* with 'Percentage must be between 0 and 1000' for pct < 0 or pct > 1000, and
\* with 'Invalid stake format' for a stake that is not an integer string.
C34_StakePercentage ==
  (/\ oddsTrace # <<>>
   /\ oddsTrace[1].op = "stake")
  => LET call == oddsTrace[1]
         stake == oddsCase.stake
         pct == oddsCase.percentage
         inBounds == pct >= 0 /\ pct <= 1000 * PercentScale
     IN /\ NotInteger(stake) => call.error = "Invalid stake format"
        /\ (~NotInteger(stake) /\ ~inBounds)
             => call.error = "Percentage must be between 0 and 1000"
        /\ (~NotInteger(stake) /\ stake[1] # "-" /\ inBounds)
             => /\ call.error = ""
                /\ \E n \in 0..(10 ^ Len(stake) - 1) :
                     /\ IsNumeral(stake, n)
                     /\ \E bps \in {(pct * 100) \div PercentScale,
                                     (pct * 100) \div PercentScale + 1} :
                          /\ IsRounded(bps, pct)
                          /\ IsFloor(call.result, n * bps)
                     /\ pct = 100 * PercentScale => call.result = n
                     /\ pct = 0 => call.result = 0
                     /\ pct = 50 * PercentScale
                          => (2 * call.result = n \/ 2 * call.result = n - 1)

C34_Witness ==
  /\ oddsTrace # <<>>
  /\ oddsTrace[1].op = "stake"
  /\ oddsCase.stake = <<"5", "0", "0">>
  /\ oddsCase.percentage = 195
  /\ oddsTrace[1].error = ""
  /\ oddsTrace[1].result = 1

\* C35: an order that holds the conditions before the odds passes when its
\* implied probability is the minimum or the maximum itself, or between them,
\* and is rejected when its percentageOdds is below the minimum or above the
\* maximum by any amount, one unit included.
C35_OddsBoundary ==
  (/\ filterResult # NoResult
   /\ FirstFailing([filterCase EXCEPT !.filters.minOdds = NoOdds,
                                      !.filters.maxOdds = NoOdds]) = "")
  => LET f == filterCase.filters
         odds == filterCase.percentageOdds
         below == f.minOdds # NoOdds /\ odds * Tenths < f.minOdds * OddsOne
         above == f.maxOdds # NoOdds /\ odds * Tenths > f.maxOdds * OddsOne
     IN /\ (~below /\ ~above) => filterResult.passed
        /\ below => filterResult = [passed |-> FALSE, reason |-> "Odds below minimum"]
        /\ (~below /\ above)
             => filterResult = [passed |-> FALSE, reason |-> "Odds above maximum"]

CopyFailed(i) ==
  \/ CopyFail(i)
  \/ CopyReturn(i) /\ copyTasks[i].result = NoHash

\* C37: a copy that fails leaves isOrderCopied of its source as it was, only a
\* source with an order accepted by the exchange is ever marked, and an ACTIVE
\* update of an unmarked source that passes the filters starts a copy attempt.
C37_FailedCopyLeavesSourceUnmarked ==
  [][/\ \A i \in DOMAIN copyTasks :
          LET H == copyTasks[i].order.orderHash
          IN /\ CopyFailed(i) => (isOrderCopied(Ledger', H) <=> isOrderCopied(Ledger, H))
             /\ (FilterDone(i, TRUE) /\ ~isOrderCopied(Ledger, H))
                => copyTasks' = [copyTasks EXCEPT ![i].pc = "copy"]
     /\ \A H \in SourceHashes :
          isOrderCopied(Ledger', H)
          => \E k \in DOMAIN exchangeOrders' : exchangeOrders'[k].source = H]_vars

\* two ACTIVE updates of a source have passed the filters, the copy of the first
\* has failed, and the copy of the second is under way
C37_Witness ==
  \E H \in SourceHashes :
    /\ Cardinality({j \in DOMAIN emitted :
                     emitted[j].event = "orderDetected" /\ emitted[j].orderHash = H}) = 2
    /\ \A k \in DOMAIN exchangeOrders : exchangeOrders[k].source # H
    /\ ~isOrderCopied(Ledger, H)
    /\ Len(copyTasks) = 1
    /\ copyTasks[1].pc = "copy" /\ copyTasks[1].order.orderHash = H

\* C38: every disconnected notification makes the bot issue one cancelAllOrders
\* request, no request is issued otherwise, and the step leaves tracked orders,
\* mappings and the copied history as they are; a transport drop, suspension or
\* close and a disconnect() that closes the client each give the notification.
C38_CancelAllOnDisconnected ==
  [][/\ notice = "disconnected"
          => /\ cancelAllRequests' = IF cancelAllRequests < MaxCancelAll
                                     THEN cancelAllRequests + 1 ELSE MaxCancelAll
             /\ Ledger' = Ledger
     /\ notice # "disconnected" => cancelAllRequests' = cancelAllRequests
     /\ (TransportDrop \/ TransportSuspend \/ TransportClosed \/ (client /\ ~client'))
          => notice' = "disconnected"]_vars

\* the ledger holds the copied order, and three notifications, the report of a
\* closed client among them, have each been answered with a request
C38_Witness ==
  /\ cancelAllRequests = 3
  /\ notice = "none"
  /\ ordersByOriginal # <<>> /\ trackedOrders # <<>>
  /\ ~closing /\ ~client
  /\ connectionState = "disconnected"

\* the step is the handling of a message of the bot's own channel that holds an
\* ACTIVE update of the hash
OwnActiveUpdate(h) ==
  \E updates \in MessagesOf(selfWalletAddress, 1) :
    /\ Deliver(selfWalletAddress, updates)
    /\ \E j \in DOMAIN updates :
         updates[j].orderHash = h /\ updates[j].status = "ACTIVE"
    /\ \E j \in DOMAIN emitted' :
         emitted'[j].event = "ownOrderDetected" /\ emitted'[j].orderHash = h

\* C39: recording a copy changes the mapping and the history only, tracked
\* orders and the exposure figures staying as they are; a hash enters tracking
\* only with an ACTIVE update of an order of the bot on its own channel, emitted
\* as ownOrderDetected; and findCopiedOrder of a source returns an order
\* only when the source is mapped and the mapped hash is tracked.
C39_MappingIsNotTracking ==
  /\ [](\A H \in SourceHashes :
          findCopiedOrder(Ledger, H) # NoOrder
          => /\ MapHas(ordersByOriginal, H)
             /\ MapGet(ordersByOriginal, H) \in DOMAIN trackedOrders
             /\ findCopiedOrder(Ledger, H) = trackedOrders[MapGet(ordersByOriginal, H)])
  /\ [][/\ \A i \in DOMAIN copyTasks :
            CopyReturn(i)
            => /\ trackedOrders' = trackedOrders
               /\ getExposureStats(Ledger') = getExposureStats(Ledger)
               /\ \A H \in SourceHashes \ {copyTasks[i].order.orderHash} :
                    /\ MapGet(ordersByOriginal', H) = MapGet(ordersByOriginal, H)
                    /\ isOrderCopied(Ledger', H) <=> isOrderCopied(Ledger, H)
        /\ \A h \in (DOMAIN trackedOrders') \ DOMAIN trackedOrders :
            /\ h \in DerivedHashes
            /\ OwnActiveUpdate(h)]_vars

\* a copy was recorded, its derived order has then entered tracking with an
\* ACTIVE update on the bot's own channel, and findCopiedOrder returns it
C39_Witness ==
  \E H \in SourceHashes :
    /\ MapHas(ordersByOriginal, H)
    /\ MapGet(ordersByOriginal, H) \in DOMAIN trackedOrders
    /\ findCopiedOrder(Ledger, H) # NoOrder
    /\ \E j \in DOMAIN emitted :
         /\ emitted[j].event = "ownOrderDetected"
         /\ emitted[j].orderHash = MapGet(ordersByOriginal, H)

\* the step is the handling of a message of a monitored wallet's channel that
\* reports the order cancelled or filled
SourceEnds(update) ==
  /\ update.status \in {"INACTIVE", "FILLED"}
  /\ \E wallet \in monitoredWallets : Deliver(wallet, <<update>>)

\* C40: with autoCancelOnSource disabled no step makes a cancel request, and a
\* cancellation or fill of a monitored wallet's order leaves the ledger as it
\* is; with it enabled such an event makes at most one request, which names the
\* derived order mapped from the source hash of the event.
C40_AutoCancelOnSource ==
  [][/\ ~autoCancelOnSource => cancelRequests' = cancelRequests
     /\ \A update \in UpdatesOf("w1") :
          SourceEnds(update)
          => /\ Ledger' = Ledger
             /\ \/ cancelRequests' = cancelRequests
                \/ /\ autoCancelOnSource
                   /\ MapHas(ordersByOriginal, update.orderHash)
                   /\ cancelRequests' =
                        Append(cancelRequests,
                               MapGet(ordersByOriginal, update.orderHash))]_vars

\* with autoCancelOnSource disabled, the cancellation or fill of a source whose
\* derived order is mapped, tracked and open has been handled without a request
C40_Witness ==
  /\ ~autoCancelOnSource
  /\ cancelRequests = <<>>
  /\ \E j \in DOMAIN emitted :
       /\ emitted[j].event \in {"orderCancelled", "orderFilled"}
       /\ findCopiedOrder(Ledger, emitted[j].orderHash) # NoOrder
       /\ \E k \in DOMAIN exchangeOrders :
            /\ exchangeOrders[k].status = "ACTIVE"
            /\ <<"d", k>> = MapGet(ordersByOriginal, emitted[j].orderHash)

====
